---- MODULE Spec2Model ----
(***************************************************************************)
(* The TSQL query engine of delphin/tsql.py: name resolution, join         *)
(* planning (seeding, pivot search, key columns, join order) and the       *)
(* execution of the planned joins on a Selection.                          *)
(*                                                                         *)
(* A column reference is a record [rel, col]; rel = "" is a bare name,     *)
(* which is what str.rpartition('.') gives for a name without a dot.       *)
(* Python lists are sequences; positions are 1-based here, 0-based there.  *)
(***************************************************************************)
EXTENDS Integers, Sequences, FiniteSets, TLC

VARIABLES
    db,            \* the Database: schema and rows
    tokens,        \* the tokens of the query text given to select()
    clock,         \* the current moment, as datetime.now() reads it
    inspected,     \* the results of the inspect_query calls so far
    call,          \* the last call made on the Selection by its holder
    query,         \* _parse_select: projection, relations, condition
    pc,            \* position of the query in select / _select / _plan_joins
    err,           \* the exception that ended the query, "" if none
    projection,    \* _make_execution_plan: the resolved projection
    condition,     \* _make_execution_plan: cond_resolved (NoCond if none)
    cond_fields,   \* _make_execution_plan: cond_fields
    relset,        \* _plan_joins: relset
    joinmap,       \* _plan_joins: joinmap, an ordered dict rel -> columns
    added,         \* _plan_joins: added
    nodes,         \* _pivot_relations: nodes
    edges,         \* _pivot_relations: edges
    pivots,        \* _pivot_relations: pivots
    components,    \* _pivot_relations: components
    joined_keys,   \* _plan_joins: joined_keys
    joins,         \* _plan_joins: joins
    selection,     \* _select: the Selection
    result,        \* list(selection) of the returned Selection
    pivot_iters,   \* iterations of the while loop of _pivot_relations
    order_passes,  \* iterations of the while loop of _plan_joins
    comps_before,  \* len(components) before the last pivot was added
    keys_before,   \* joined_keys before the last relation was ordered
    jnext          \* _select: position in joins of the next join of the for loop

vars == <<db, tokens, clock, inspected, call, query, pc, err, projection, condition, cond_fields, relset,
          joinmap, added, nodes, edges, pivots, components, joined_keys,
          joins, selection, result, pivot_iters, order_passes,
          comps_before, keys_before, jnext>>

(***************************************************************************)
(* Bounds of the model.                                                    *)
(***************************************************************************)
MaxFrom == 2      \* longest from clause
MaxProj == 2      \* longest projection
MaxPieces == 5    \* longest where part, in comparisons, connectives and parentheses
MaxStmt == 3      \* longest run of tokens tried as a comparison
MaxHead == 4      \* longest run of tokens tried as projection and from clause
MaxJoins == 2     \* most relations joined into one Selection by direct _join calls
MaxInspects == 2  \* most inspect_query calls on one query string
MaxClock == 1     \* latest moment of a call

(***************************************************************************)
(* Sequences.                                                              *)
(***************************************************************************)
SeqToSet(s) == {s[i] : i \in 1..Len(s)}

Contains(s, x) == \E i \in 1..Len(s) : s[i] = x

\* the sequences over S of length lo..hi
SeqsOf(S, lo, hi) == UNION {[1..n -> S] : n \in lo..hi}

\* every order in which a set can be iterated
Orders(S) == {s \in [1..Cardinality(S) -> S] : \A i, j \in 1..Cardinality(S) : s[i] = s[j] => i = j}

RECURSIVE Flatten(_)
Flatten(ss) == IF ss = <<>> THEN <<>> ELSE Head(ss) \o Flatten(Tail(ss))

\* position of the first element of s that satisfies Test, 0 if none
FirstIndex(s, Test(_)) ==
    IF \E i \in 1..Len(s) : Test(s[i])
    THEN CHOOSE i \in 1..Len(s) : Test(s[i]) /\ \A j \in 1..(i - 1) : ~Test(s[j])
    ELSE 0

\* faulty variant of RemoveAt: nothing is removed
RemoveNone(s, i) == s

\* list.pop / dict.pop: s without its i-th element
RemoveAt(s, i) == SubSeq(s, 1, i - 1) \o SubSeq(s, i + 1, Len(s))

(***************************************************************************)
(* Python's order of the strings used as names: sorted() of qualified      *)
(* names compares "rel.col" strings; no relation name here is a prefix of  *)
(* another, so that order is the order of (rel, col) pairs.                *)
(***************************************************************************)
SortedNames ==
    << "", "*", "A", "B", "C", "G1", "G2", "G3", "P1", "P2", "P3", "R0",
       "R1", "R2", "R3", "S", "T", "U1", "U2", "a", "b", "c", "d", "g1",
       "g2", "g3", "i-id", "i-input", "item", "mrs", "nosuch", "parse",
       "parse-id", "result", "result-id", "v", "w", "x", "y", "z", "zz" >>

NameRank(s) == CHOOSE i \in 1..Len(SortedNames) : SortedNames[i] = s

QnameLess(p, q) ==
    \/ NameRank(p.rel) < NameRank(q.rel)
    \/ p.rel = q.rel /\ NameRank(p.col) < NameRank(q.col)

\* sorted(S) for a set S of qualified names
RECURSIVE SortedQnames(_)
SortedQnames(S) ==
    IF S = {} THEN <<>>
    ELSE LET m == CHOOSE q \in S : \A r \in S \ {q} : QnameLess(q, r)
         IN <<m>> \o SortedQnames(S \ {m})

(***************************************************************************)
(* The Database collaborator: schema, an ordered mapping from relation     *)
(* name to Fields, and select_from.                                        *)
(***************************************************************************)
Field(n, k) == [name |-> n, is_key |-> k]
Key(n) == Field(n, TRUE)
Col(n) == Field(n, FALSE)
Rel(n, fs) == [name |-> n, fields |-> fs]

RelNames(d) == {d.schema[i].name : i \in 1..Len(d.schema)}

\* db.schema[rel]; the caller checks rel \in RelNames(d) (else KeyError)
SchemaFields(d, rel) == (CHOOSE r \in SeqToSet(d.schema) : r.name = rel).fields

FieldNames(fs) == [i \in 1..Len(fs) |-> fs[i].name]

\* tsdb.make_field_index: field name -> position
make_field_index(fs) == [n \in SeqToSet(FieldNames(fs)) |-> CHOOSE i \in 1..Len(fs) : fs[i].name = n]

\* db.select_from(rel, columns): the rows of rel, each with the requested
\* columns in the requested order
select_from(d, rel, columns) ==
    LET idx == make_field_index(SchemaFields(d, rel))
        rows == d.rows[rel]
    IN [r \in 1..Len(rows) |-> [c \in 1..Len(columns) |-> rows[r][idx[columns[c]]]]]

(***************************************************************************)
(* _make_keymap: relation -> the names of its key fields, schema order.    *)
(***************************************************************************)
KeysOf(fs) == FieldNames(SelectSeq(fs, LAMBDA f : f.is_key))

_make_keymap(d) == [rel \in RelNames(d) |-> KeysOf(SchemaFields(d, rel))]

(***************************************************************************)
(* The condition tree.  A comparison is [op, col, val]; a boolean node is  *)
(* [op, body] with op "and" or "or" and body the list of children; a       *)
(* negation is [op, child] with op "not"; NoCond is Python's None.         *)
(***************************************************************************)
NoCond == [op |-> "none"]
Cmp(o, c, v) == [op |-> o, col |-> c, val |-> v]
Bool(o, cs) == [op |-> o, body |-> cs]
Not(c) == [op |-> "not", child |-> c]

Bare(c) == [rel |-> "", col |-> c]
Q(r, c) == [rel |-> r, col |-> c]
Star == <<Bare("*")>>

\* the column names of the comparisons of a condition, in the order that
\* _process_condition_fields reaches them
RECURSIVE CondRefs(_)
CondRefs(c) ==
    IF c.op \in {"and", "or"} THEN Flatten([i \in 1..Len(c.body) |-> CondRefs(c.body[i])])
    ELSE IF c.op = "not" THEN CondRefs(c.child)
    ELSE <<c.col>>

(***************************************************************************)
(* _make_schema_map: field name -> the relations that have it, those of    *)
(* the from clause first (sorted() is stable, also with reverse=True).     *)
(***************************************************************************)
AllFieldNames(d) == UNION {SeqToSet(FieldNames(d.schema[i].fields)) : i \in 1..Len(d.schema)}

\* faulty variant of _make_schema_map: the relations of the from clause are
\* not preferred
_make_schema_map_unsorted(d, relations) ==
    [col \in AllFieldNames(d) |->
        SelectSeq([i \in 1..Len(d.schema) |-> d.schema[i].name],
                  LAMBDA r : col \in SeqToSet(FieldNames(SchemaFields(d, r))))]

_make_schema_map(d, relations) ==
    [col \in AllFieldNames(d) |->
        LET having == SelectSeq([i \in 1..Len(d.schema) |-> d.schema[i].name],
                                LAMBDA r : col \in SeqToSet(FieldNames(SchemaFields(d, r))))
        IN SelectSeq(having, LAMBDA r : Contains(relations, r))
           \o SelectSeq(having, LAMBDA r : ~Contains(relations, r))]

(***************************************************************************)
(* _make_qname_resolver.resolve: a name with a relation qualifier is       *)
(* returned as it is; a bare name gets its first candidate relation; a     *)
(* bare name with no candidate raises 'undefined column'.                  *)
(***************************************************************************)
Undefined(schema_map, colname) == colname.rel = "" /\ colname.col \notin DOMAIN schema_map

resolve(schema_map, colname) ==
    IF colname.rel # "" THEN colname
    ELSE Q(schema_map[colname.col][1], colname.col)

(***************************************************************************)
(* _project_all: the fields of the named relations, a key name only once.  *)
(***************************************************************************)
\* faulty variant of _project_all: a key shared by two relations is
\* projected from both
_project_all_every(relations, d) ==
    Flatten([i \in 1..Len(relations) |->
                LET fs == SchemaFields(d, relations[i])
                IN [j \in 1..Len(fs) |-> Q(relations[i], fs[j].name)]])

\* faulty variant of _project_all: only the key fields are projected
_project_all_keys(relations, d) ==
    Flatten([i \in 1..Len(relations) |->
                LET ks == KeysOf(SchemaFields(d, relations[i]))
                IN [j \in 1..Len(ks) |-> Q(relations[i], ks[j])]])

_project_all(relations, d) ==
    LET pairs == Flatten([i \in 1..Len(relations) |->
                    LET fs == SchemaFields(d, relations[i])
                    IN [j \in 1..Len(fs) |-> [rel |-> relations[i], field |-> fs[j]]]])
        numbered == [k \in 1..Len(pairs) |-> [k |-> k, p |-> pairs[k]]]
        kept == SelectSeq(numbered, LAMBDA e :
                    \/ ~e.p.field.is_key
                    \/ \A j \in 1..(e.k - 1) :
                          ~(pairs[j].field.is_key /\ pairs[j].field.name = e.p.field.name))
    IN [k \in 1..Len(kept) |-> Q(kept[k].p.rel, kept[k].p.field.name)]

(***************************************************************************)
(* _process_condition_fields: the condition with its columns resolved,     *)
(* and the columns it reads (sorted, for a boolean node).                  *)
(***************************************************************************)
RECURSIVE ResolveCond(_, _)
ResolveCond(schema_map, c) ==
    IF c.op \in {"and", "or"}
    THEN Bool(c.op, [i \in 1..Len(c.body) |-> ResolveCond(schema_map, c.body[i])])
    ELSE IF c.op = "not" THEN Not(ResolveCond(schema_map, c.child))
    ELSE Cmp(c.op, resolve(schema_map, c.col), c.val)

RECURSIVE CondFields(_, _)
CondFields(schema_map, c) ==
    IF c.op \in {"and", "or"}
    THEN SortedQnames(UNION {SeqToSet(CondFields(schema_map, c.body[i])) : i \in 1..Len(c.body)})
    ELSE IF c.op = "not" THEN CondFields(schema_map, c.child)
    ELSE <<resolve(schema_map, c.col)>>

(***************************************************************************)
(* _plan_joins, lines 358-366: the relations and columns the query names.  *)
(* joinmap is a dict in insertion order: a sequence of [rel, cols].        *)
(***************************************************************************)
JmHas(jm, rel) == \E i \in 1..Len(jm) : jm[i].rel = rel

\* faulty variant of JmAppend: a new entry for every column
JmAppendNew(jm, rel, col) == Append(jm, [rel |-> rel, cols |-> <<col>>])

\* joinmap.setdefault(rel, []).append(col)
JmAppend(jm, rel, col) ==
    IF JmHas(jm, rel)
    THEN [i \in 1..Len(jm) |->
            IF jm[i].rel = rel THEN [rel |-> rel, cols |-> Append(jm[i].cols, col)] ELSE jm[i]]
    ELSE Append(jm, [rel |-> rel, cols |-> <<col>>])

RECURSIVE SeedJoinmap(_, _, _)
SeedJoinmap(qnames, jm, add) ==
    IF qnames = <<>> THEN [joinmap |-> jm, added |-> add]
    ELSE LET q == Head(qnames)
         IN IF q \in add THEN SeedJoinmap(Tail(qnames), jm, add)
            ELSE SeedJoinmap(Tail(qnames), JmAppend(jm, q.rel, q.col), add \cup {q})

SeedRelset(relations, qnames) == SeqToSet(relations) \cup {qnames[i].rel : i \in 1..Len(qnames)}

(***************************************************************************)
(* util._connected_components: the connected components of the graph.      *)
(***************************************************************************)
_connected_components(ns, es) ==
    LET Adj(n) == {m \in ns : <<n, m>> \in es \/ <<m, n>> \in es}
        RECURSIVE Grow(_)
        Grow(S) == LET T == S \cup UNION {Adj(n) : n \in S}
                   IN IF T = S THEN S ELSE Grow(T)
    IN {Grow({n}) : n \in ns}

(***************************************************************************)
(* _pivot_relations.  edges is a list in the code; only the set of its     *)
(* pairs is ever read (by _connected_components).                          *)
(***************************************************************************)
\* faulty variant of add_edges: the keys of a relation are not linked
add_no_edges(keys) == {}

add_edges(keys) ==
    {<<keys[p[1]], keys[p[2]]>> : p \in {p \in (1..Len(keys)) \X (1..Len(keys)) : p[1] < p[2]}}

\* lines 417-420: the key names of the relations and the edges among them
PivotNodes(rels, keymap) == UNION {SeqToSet(keymap[rel]) : rel \in rels}
PivotEdges(rels, keymap) == UNION {add_edges(keymap[rel]) : rel \in rels}

\* faulty variants of IsPivot: the component test is missing; one
\* component is enough
IsPivotAny(rel, keys, rels, pvts, comps) ==
    /\ rel \notin (rels \cup pvts)
    /\ Len(keys) > 1

IsPivotTouching(rel, keys, rels, pvts, comps) ==
    /\ rel \notin (rels \cup pvts)
    /\ Len(keys) > 1
    /\ Cardinality({c \in comps : c \cap SeqToSet(keys) # {}}) > 0

\* lines 427-429: rel is not selected, has more than one key, and has keys
\* in more than one component
IsPivot(rel, keys, rels, pvts, comps) ==
    /\ rel \notin (rels \cup pvts)
    /\ Len(keys) > 1
    /\ Cardinality({c \in comps : c \cap SeqToSet(keys) # {}}) > 1

\* lines 426-434: the first relation of keymap (schema order) that is a
\* pivot, "" if there is none
FindPivot(d, keymap, rels, pvts, comps) ==
    LET names == [i \in 1..Len(d.schema) |-> d.schema[i].name]
        i == FirstIndex(names, LAMBDA r : IsPivot(r, keymap[r], rels, pvts, comps))
    IN IF i = 0 THEN "" ELSE names[i]

(***************************************************************************)
(* _plan_joins, lines 370-376: every key field of every relation of        *)
(* relset is requested.  relset is a set: ord is the order in which this   *)
(* run of the interpreter iterates it.                                     *)
(***************************************************************************)
\* faulty variant of AddKeyFields: a key already requested is added again
RECURSIVE AddKeyFieldsAll(_, _, _, _)
AddKeyFieldsAll(jm, rel, fs, add) ==
    IF fs = <<>> THEN jm
    ELSE IF Head(fs).is_key
         THEN AddKeyFieldsAll(JmAppend(jm, rel, Head(fs).name), rel, Tail(fs), add)
         ELSE AddKeyFieldsAll(jm, rel, Tail(fs), add)

RECURSIVE AddKeyFields(_, _, _, _)
AddKeyFields(jm, rel, fs, add) ==
    IF fs = <<>> THEN jm
    ELSE LET f == Head(fs)
         IN IF f.is_key /\ Q(rel, f.name) \notin add
            THEN AddKeyFields(JmAppend(jm, rel, f.name), rel, Tail(fs), add)
            ELSE AddKeyFields(jm, rel, Tail(fs), add)

RECURSIVE AddKeys(_, _, _, _)
AddKeys(jm, ord, d, add) ==
    IF ord = <<>> THEN jm
    ELSE AddKeys(AddKeyFields(jm, Head(ord), SchemaFields(d, Head(ord)), add), Tail(ord), d, add)

(***************************************************************************)
(* _plan_joins, lines 378-391: the join order.                             *)
(***************************************************************************)
\* faulty variant of Orderable: the shared key is not checked
OrderableAlways(e, js, jkeys) == TRUE

\* line 383
Orderable(e, js, jkeys) == js = <<>> \/ jkeys \cap SeqToSet(e.cols) # {}

\* lines 382-387: the position in joinmap of the relation ordered by this
\* pass, 0 if there is none
OrderPick(jm, js, jkeys) == FirstIndex(jm, LAMBDA e : Orderable(e, js, jkeys))

\* faulty variant of OrderKeys: joined_keys is not updated
OrderKeysLost(jkeys, keymap, rel) == jkeys

\* line 385
OrderKeys(jkeys, keymap, rel) == jkeys \cup SeqToSet(keymap[rel])

RECURSIVE OrderLoop(_, _, _, _)
OrderLoop(jm, js, jkeys, keymap) ==
    IF jm = <<>> THEN [err |-> "", joins |-> js]
    ELSE LET i == OrderPick(jm, js, jkeys)
         IN IF i = 0 THEN [err |-> "infinite loop detected!", joins |-> js]
            ELSE OrderLoop(RemoveAt(jm, i), Append(js, jm[i]),
                           OrderKeys(jkeys, keymap, jm[i].rel), keymap)

(***************************************************************************)
(* Selection.                                                              *)
(***************************************************************************)
None == 0 - 1

NoProjection == [is_none |-> TRUE, names |-> <<>>]
Projection(names) == [is_none |-> FALSE, names |-> names]

\* Selection.__init__
NewSelection ==
    [fields |-> <<>>, field_index |-> <<>>, data |-> <<>>,
     projection |-> NoProjection, joined |-> {}]

\* Selection.select(*names): no names means every column.  The caller
\* checks that the names are keys of the field index (else KeyError).
SelectIndices(sel, names) ==
    IF names = <<>> THEN [i \in 1..Len(sel.fields) |-> i]
    ELSE [i \in 1..Len(names) |-> sel.field_index[names[i]]]

SelectOk(sel, names) == \A i \in 1..Len(names) : names[i] \in DOMAIN sel.field_index

\* faulty variant of Selection_select: the columns come in the order of the
\* fields, whatever the order of the names
Selection_select_sorted(sel, names) ==
    LET wanted == {SelectIndices(sel, names)[i] : i \in 1..Len(SelectIndices(sel, names))}
        indices == SelectSeq([i \in 1..Len(sel.fields) |-> i], LAMBDA i : i \in wanted)
    IN [r \in 1..Len(sel.data) |-> [i \in 1..Len(indices) |-> sel.data[r][indices[i]]]]

Selection_select(sel, names) ==
    LET indices == SelectIndices(sel, names)
    IN [r \in 1..Len(sel.data) |-> [i \in 1..Len(indices) |-> sel.data[r][indices[i]]]]

\* Selection.__iter__
Selection_iter(sel) ==
    IF sel.projection.is_none THEN Selection_select(sel, <<>>)
    ELSE Selection_select(sel, sel.projection.names)

(***************************************************************************)
(* _merge_fields                                                           *)
(***************************************************************************)
\* faulty variant of MergeLoop: a bare name follows the last column merged
\* under it
RECURSIVE MergeLoopLast(_, _, _, _)
MergeLoopLast(fs, fi, relationname, new) ==
    IF new = <<>> THEN [fields |-> fs, field_index |-> fi]
    ELSE LET f == Head(new)
             i == Len(fs) + 1
             fi1 == (Bare(f.name) :> i) @@ fi
             fi2 == (Q(relationname, f.name) :> i) @@ fi1
         IN MergeLoopLast(Append(fs, f), fi2, relationname, Tail(new))

RECURSIVE MergeLoop(_, _, _, _)
MergeLoop(fs, fi, relationname, new) ==
    IF new = <<>> THEN [fields |-> fs, field_index |-> fi]
    ELSE LET f == Head(new)
             i == Len(fs) + 1
             fi1 == IF Bare(f.name) \in DOMAIN fi THEN fi ELSE (Bare(f.name) :> i) @@ fi
             fi2 == (Q(relationname, f.name) :> i) @@ fi1
         IN MergeLoop(Append(fs, f), fi2, relationname, Tail(new))

\* faulty variant of MergeOn: the joined-on fields get no qualified name
MergeOnNothing(fi, relationname, on) == fi

RECURSIVE MergeOn(_, _, _)
MergeOn(fi, relationname, on) ==
    IF on = <<>> THEN fi
    ELSE MergeOn((Q(relationname, Head(on)) :> fi[Bare(Head(on))]) @@ fi, relationname, Tail(on))

_merge_fields(sel, relationname, on, new) ==
    LET m == MergeLoop(sel.fields, sel.field_index, relationname, new)
    IN [sel EXCEPT !.fields = m.fields,
                   !.field_index = MergeOn(m.field_index, relationname, on),
                   !.joined = sel.joined \cup {relationname}]

(***************************************************************************)
(* _join: the outcome is [err, sel]; sel is untouched when err # "".       *)
(***************************************************************************)
\* line 550: the requested key fields whose name the selection has
JoinOn(sel, fs) ==
    FieldNames(SelectSeq(fs, LAMBDA f : f.is_key /\ Bare(f.name) \in DOMAIN sel.field_index))

\* faulty variant of JoinData: a later row of the relation with the same
\* keys replaces the earlier one
JoinDataLast(sel, d, name, on, cols, how) ==
    LET rkeys == select_from(d, name, on)
        rrows == select_from(d, name, cols)
        lkeys == Selection_select(sel, [i \in 1..Len(on) |-> Bare(on[i])])
        lrows == Selection_iter(sel)
        rfill == [i \in 1..Len(cols) |-> None]
        Matches(k) == LET hit == SelectSeq([r \in 1..Len(rkeys) |-> r], LAMBDA r : rkeys[r] = k)
                      IN IF hit = <<>> THEN <<>> ELSE <<rrows[hit[Len(hit)]]>>
        Out(l) == LET ms == Matches(lkeys[l])
                  IN IF ms # <<>> THEN [m \in 1..Len(ms) |-> lrows[l] \o ms[m]]
                     ELSE IF how = "left" THEN <<lrows[l] \o rfill>>
                     ELSE <<>>
    IN Flatten([l \in 1..Len(lrows) |-> Out(l)])

\* faulty variant of JoinData: rows without a match are kept by every method
JoinDataKeep(sel, d, name, on, cols, how) ==
    LET rkeys == select_from(d, name, on)
        rrows == select_from(d, name, cols)
        lkeys == Selection_select(sel, [i \in 1..Len(on) |-> Bare(on[i])])
        lrows == Selection_iter(sel)
        rfill == [i \in 1..Len(cols) |-> None]
        Matches(k) == LET hit == SelectSeq([r \in 1..Len(rkeys) |-> r], LAMBDA r : rkeys[r] = k)
                      IN [m \in 1..Len(hit) |-> rrows[hit[m]]]
        Out(l) == LET ms == Matches(lkeys[l])
                  IN IF ms # <<>> THEN [m \in 1..Len(ms) |-> lrows[l] \o ms[m]]
                     ELSE <<lrows[l] \o rfill>>
    IN Flatten([l \in 1..Len(lrows) |-> Out(l)])

\* lines 558-568: the rows of the hash join
JoinData(sel, d, name, on, cols, how) ==
    LET rkeys == select_from(d, name, on)
        rrows == select_from(d, name, cols)
        lkeys == Selection_select(sel, [i \in 1..Len(on) |-> Bare(on[i])])
        lrows == Selection_iter(sel)
        rfill == [i \in 1..Len(cols) |-> None]
        Matches(k) == LET hit == SelectSeq([r \in 1..Len(rkeys) |-> r], LAMBDA r : rkeys[r] = k)
                      IN [m \in 1..Len(hit) |-> rrows[hit[m]]]
        Out(l) == LET ms == Matches(lkeys[l])
                  IN IF ms # <<>> THEN [m \in 1..Len(ms) |-> lrows[l] \o ms[m]]
                     ELSE IF how = "left" THEN <<lrows[l] \o rfill>>
                     ELSE <<>>
    IN Flatten([l \in 1..Len(lrows) |-> Out(l)])

\* faulty variant of _join: the fields are merged before the shared keys
\* are looked at
_join_merge_first(sel, d, name, columns, how) ==
    IF how \notin {"inner", "left"}
    THEN [err |-> "only 'inner' and 'left' join methods are allowed", sel |-> sel]
    ELSE IF name \in sel.joined
    THEN [err |-> "cannot join the same relation twice", sel |-> sel]
    ELSE IF name \notin RelNames(d)
    THEN [err |-> "KeyError", sel |-> sel]
    ELSE LET all_fields == SchemaFields(d, name)
             field_index == make_field_index(all_fields)
         IN IF \E i \in 1..Len(columns) : columns[i] \notin DOMAIN field_index
            THEN [err |-> "KeyError", sel |-> sel]
            ELSE LET fs == [i \in 1..Len(columns) |-> all_fields[field_index[columns[i]]]]
                 IN IF sel.joined = {}
                    THEN [err |-> "",
                          sel |-> [_merge_fields(sel, name, <<>>, fs)
                                      EXCEPT !.data = select_from(d, name, columns)]]
                    ELSE LET on == JoinOn(sel, fs)
                             rest == SelectSeq(fs, LAMBDA f : ~Contains(on, f.name))
                             cols == FieldNames(rest)
                         IN IF on = <<>>
                            THEN [err |-> "no shared keys for joining",
                                  sel |-> _merge_fields(sel, name, on, rest)]
                            ELSE [err |-> "",
                                  sel |-> [_merge_fields(sel, name, on, rest)
                                              EXCEPT !.data = JoinData(sel, d, name, on, cols, how)]]

_join(sel, d, name, columns, how) ==
    IF how \notin {"inner", "left"}
    THEN [err |-> "only 'inner' and 'left' join methods are allowed", sel |-> sel]
    ELSE IF name \in sel.joined
    THEN [err |-> "cannot join the same relation twice", sel |-> sel]
    ELSE IF name \notin RelNames(d)
    THEN [err |-> "KeyError", sel |-> sel]
    ELSE LET all_fields == SchemaFields(d, name)
             field_index == make_field_index(all_fields)
         IN IF \E i \in 1..Len(columns) : columns[i] \notin DOMAIN field_index
            THEN [err |-> "KeyError", sel |-> sel]
            ELSE LET fs == [i \in 1..Len(columns) |-> all_fields[field_index[columns[i]]]]
                 IN IF sel.joined = {}
                    THEN [err |-> "",
                          sel |-> [_merge_fields(sel, name, <<>>, fs)
                                      EXCEPT !.data = select_from(d, name, columns)]]
                    ELSE LET on == JoinOn(sel, fs)
                             rest == SelectSeq(fs, LAMBDA f : ~Contains(on, f.name))
                             cols == FieldNames(rest)
                         IN IF on = <<>>
                            THEN [err |-> "no shared keys for joining", sel |-> sel]
                            ELSE [err |-> "",
                                  sel |-> [_merge_fields(sel, name, on, rest)
                                              EXCEPT !.data = JoinData(sel, d, name, on, cols, how)]]

(***************************************************************************)
(* _process_condition_function: the row predicate of a condition.  "T" and *)
(* "F" are the truth values, "E" is a KeyError of the field index lookup;  *)
(* all() stops at the first false child and any() at the first true one.   *)
(***************************************************************************)
Compare(op, x, y) ==
    IF op = "==" THEN x = y
    ELSE IF op = "!=" THEN x # y
    ELSE IF op = "<" THEN x < y
    ELSE IF op = "<=" THEN x <= y
    ELSE IF op = ">" THEN x > y
    ELSE x >= y

RECURSIVE _process_condition_function(_, _, _)
_process_condition_function(c, field_index, row) ==
    IF c.op \in {"and", "or"}
    THEN LET go == IF c.op = "and" THEN "T" ELSE "F"
             vals == [i \in 1..Len(c.body) |-> _process_condition_function(c.body[i], field_index, row)]
             i == FirstIndex(vals, LAMBDA v : v # go)
         IN IF i = 0 THEN go ELSE vals[i]
    ELSE IF c.op = "not"
    THEN LET v == _process_condition_function(c.child, field_index, row)
         IN IF v = "E" THEN "E" ELSE IF v = "T" THEN "F" ELSE "T"
    ELSE IF c.col \notin DOMAIN field_index THEN "E"
    ELSE IF Compare(c.op, row[field_index[c.col]], c.val) THEN "T" ELSE "F"

\* faulty variant of FilterRows: every row is kept
FilterRowsAll(c, sel) == sel.data

\* _select, lines 270-272
FilterRows(c, sel) == SelectSeq(sel.data, LAMBDA row : _process_condition_function(c, sel.field_index, row) = "T")

FilterFails(c, sel) ==
    \E r \in 1..Len(sel.data) : _process_condition_function(c, sel.field_index, sel.data[r]) = "E"

(***************************************************************************)
(* _select, lines 267-275, on a plan: the joins in order, the filter, the  *)
(* projection, and the rows the returned Selection yields.                 *)
(***************************************************************************)
RECURSIVE JoinAll(_, _, _)
JoinAll(sel, d, js) ==
    IF js = <<>> THEN [err |-> "", sel |-> sel]
    ELSE LET j == _join(sel, d, Head(js).rel, Head(js).cols, "inner")
         IN IF j.err # "" THEN j ELSE JoinAll(j.sel, d, Tail(js))

Finish(sel, c, proj) ==
    IF c # NoCond /\ FilterFails(c, sel) THEN [err |-> "KeyError", sel |-> sel]
    ELSE [err |-> "",
          sel |-> [sel EXCEPT !.data = IF c = NoCond THEN sel.data ELSE FilterRows(c, sel),
                              !.projection = Projection(proj)]]

Rows(sel) ==
    IF ~sel.projection.is_none /\ ~SelectOk(sel, sel.projection.names)
    THEN [err |-> "KeyError", rows |-> <<>>]
    ELSE [err |-> "", rows |-> Selection_iter(sel)]

\* what a run gives that iterates relset in the order ord at line 371
Outcome(d, proj, c, jm, add, ord) ==
    LET o == OrderLoop(AddKeys(jm, ord, d, add), <<>>, {}, _make_keymap(d))
    IN IF o.err # "" THEN [err |-> o.err, rows |-> <<>>]
       ELSE LET j == JoinAll(NewSelection, d, o.joins)
            IN IF j.err # "" THEN [err |-> j.err, rows |-> <<>>]
               ELSE LET f == Finish(j.sel, c, proj)
                    IN IF f.err # "" THEN [err |-> f.err, rows |-> <<>>]
                       ELSE Rows(f.sel)

(***************************************************************************)
(* Databases and query vocabularies.  A scenario is a database with the    *)
(* names its queries are written with: froms for the from clause, refs for *)
(* the projection, conds for the condition.                                *)
(***************************************************************************)
Database(schema, rows) == [schema |-> schema, rows |-> rows]

\* item, parse and result of the [incr tsdb()] schema
DbTsdb ==
    Database(<< Rel("item", <<Key("i-id"), Col("i-input")>>),
                Rel("parse", <<Key("parse-id"), Key("i-id")>>),
                Rel("result", <<Key("parse-id"), Col("result-id"), Col("mrs")>>) >>,
             [r \in {"item", "parse", "result"} |->
                 IF r = "item" THEN << <<10, 1>>, <<20, 2>>, <<30, 1>> >>
                 ELSE IF r = "parse" THEN << <<1, 10>>, <<2, 20>>, <<3, 30>> >>
                 ELSE << <<1, 0, 5>>, <<1, 1, 6>>, <<3, 0, 5>> >>])

\* R1(keys a), R2(keys a, b), R3(keys b)
Db123 ==
    Database(<< Rel("R1", <<Key("a"), Col("x")>>),
                Rel("R2", <<Key("a"), Key("b")>>),
                Rel("R3", <<Key("b"), Col("y")>>) >>,
             [r \in {"R1", "R2", "R3"} |->
                 IF r = "R1" THEN << <<1, 10>>, <<2, 20>> >>
                 ELSE IF r = "R2" THEN << <<1, 5>>, <<2, 6>> >>
                 ELSE << <<5, 50>>, <<6, 60>> >>])

\* the same without R2
Db13 ==
    Database(<< Rel("R1", <<Key("a"), Col("x")>>),
                Rel("R3", <<Key("b"), Col("y")>>) >>,
             [r \in {"R1", "R3"} |->
                 IF r = "R1" THEN << <<1, 10>>, <<2, 20>> >> ELSE << <<5, 50>>, <<6, 60>> >>])

\* S and T are bridged only by the chain P1, P2, P3
DbChain ==
    Database(<< Rel("S", <<Key("a"), Col("x")>>),
                Rel("P1", <<Key("a"), Key("b")>>),
                Rel("P2", <<Key("b"), Key("c")>>),
                Rel("P3", <<Key("c"), Key("d")>>),
                Rel("T", <<Key("d"), Col("y")>>) >>,
             [r \in {"S", "P1", "P2", "P3", "T"} |-> << <<1, 1>>, <<2, 2>> >>])

\* A, B and C are bridged by P2 alone, and P1 comes first in the schema
DbGreedy ==
    Database(<< Rel("A", <<Key("a"), Col("x")>>),
                Rel("B", <<Key("b"), Col("y")>>),
                Rel("C", <<Key("c"), Col("z")>>),
                Rel("P1", <<Key("a"), Key("b")>>),
                Rel("P2", <<Key("a"), Key("b"), Key("c")>>) >>,
             [r \in {"A", "B", "C", "P1", "P2"} |->
                 IF r = "P2" THEN << <<1, 1, 1>>, <<2, 2, 2>> >> ELSE << <<1, 1>>, <<2, 2>> >>])

\* a relation without a key field
DbKeyless ==
    Database(<< Rel("R0", <<Col("v")>>),
                Rel("R1", <<Key("a"), Col("x")>>) >>,
             [r \in {"R0", "R1"} |->
                 IF r = "R0" THEN << <<7>>, <<8>> >> ELSE << <<1, 10>>, <<2, 20>> >>])

\* a is a key of R1 and R3 and a plain column of R2, as result-id is a key
\* of some [incr tsdb()] relations and a plain column of result
DbMixed ==
    Database(<< Rel("R1", <<Key("a"), Col("x")>>),
                Rel("R2", <<Key("b"), Col("a")>>),
                Rel("R3", <<Key("a"), Key("b")>>) >>,
             [r \in {"R1", "R2", "R3"} |-> << <<1, 1>>, <<2, 2>> >>])

\* U1 and U2 both join P1 to P2 and list the matching P2 rows in
\* different orders
DbOrder ==
    Database(<< Rel("P1", <<Key("a"), Col("v")>>),
                Rel("P2", <<Key("c"), Col("w")>>),
                Rel("U1", <<Key("a"), Key("b"), Key("c")>>),
                Rel("U2", <<Key("a"), Key("c")>>) >>,
             [r \in {"P1", "P2", "U1", "U2"} |->
                 IF r = "P1" THEN << <<1, 7>> >>
                 ELSE IF r = "P2" THEN << <<1, 8>>, <<2, 9>> >>
                 ELSE IF r = "U1" THEN << <<1, 1, 1>>, <<1, 2, 2>> >>
                 ELSE << <<1, 2>>, <<1, 1>> >>])

Scenario(d, froms, refs, conds) == [db |-> d, froms |-> froms, refs |-> refs, conds |-> conds]

Scenarios ==
    << Scenario(DbTsdb, {"item", "result"},
                {Bare("i-id"), Bare("i-input"), Bare("mrs"), Q("item", "i-id"), Bare("zz")},
                << NoCond,
                   Cmp("==", Bare("i-input"), 1),
                   Bool("or", <<Cmp("==", Bare("i-id"), 10), Cmp("==", Bare("i-id"), 20)>>),
                   Bool("and", <<Cmp(">", Bare("result-id"), 0), Cmp("!=", Bare("i-id"), 20)>>),
                   Not(Cmp("<", Bare("parse-id"), 2)),
                   Cmp("==", Bare("zz"), 1),
                   Cmp("==", Q("item", "zz"), 1),
                   Cmp("==", Q("nosuch", "i-id"), 1) >>),
       Scenario(Db123, {"R1", "R3"},
                {Bare("x"), Bare("y"), Q("R1", "a"), Q("R3", "b")},
                << NoCond, Cmp("<", Bare("x"), 20), Cmp("==", Bare("y"), 50) >>),
       Scenario(Db13, {"R1", "R3"},
                {Bare("x"), Bare("y"), Q("R1", "a"), Q("R3", "b")},
                << NoCond, Cmp("==", Bare("y"), 50) >>),
       Scenario(DbChain, {"T", "P2"},
                {Bare("x"), Bare("y"), Bare("b")},
                << NoCond, Cmp("==", Bare("y"), 1) >>),
       Scenario(DbGreedy, {"B", "C"},
                {Bare("x"), Bare("y"), Bare("z")},
                << NoCond, Cmp("==", Bare("z"), 1), Cmp("==", Bare("y"), 1) >>),
       Scenario(DbKeyless, {"R0", "R1"},
                {Bare("v"), Bare("x"), Bare("a")},
                << NoCond, Cmp("==", Bare("v"), 7) >>),
       Scenario(DbMixed, {"R2", "R3"},
                {Q("R1", "x"), Q("R2", "a"), Q("R2", "b"), Bare("a")},
                << NoCond, Cmp("==", Q("R2", "a"), 1) >>),
       Scenario(DbOrder, {"U1", "U2"},
                {Bare("v"), Bare("w"), Bare("b")},
                << NoCond, Cmp(">", Bare("w"), 0) >>) >>

\* three relations G1, G2, G3, each with any of these key lists and one
\* plain column, and two rows each
KeyLists == {<<>>, <<"a">>, <<"b">>, <<"a", "b">>}

GenericRel(n, c, keys) == Rel(n, [i \in 1..Len(keys) |-> Key(keys[i])] \o <<Col(c)>>)

GenericRows(keys) == << [i \in 1..(Len(keys) + 1) |-> 1], [i \in 1..(Len(keys) + 1) |-> 2] >>

GenericScenarios ==
    { Scenario(Database(<< GenericRel("G1", "g1", k[1]),
                           GenericRel("G2", "g2", k[2]),
                           GenericRel("G3", "g3", k[3]) >>,
                        [r \in {"G1", "G2", "G3"} |->
                            GenericRows(k[IF r = "G1" THEN 1 ELSE IF r = "G2" THEN 2 ELSE 3])]),
               {"G2", "G3"},
               {Bare("g1"), Bare("a")},
               <<NoCond>>) : k \in KeyLists \X KeyLists \X KeyLists }

\* the queries of a scenario
Projections(sc) == {Star} \cup SeqsOf(sc.refs, 1, MaxProj)
FromClauses(sc) == SeqsOf(sc.froms, 0, MaxFrom)
Query(p, r, c) == [projection |-> p, relations |-> r, condition |-> c]

(***************************************************************************)
(* Tokens.  util.Lexer cuts the query text into tokens with the patterns   *)
(* of _TSQLLexer; a token has a type and the text it matched.  The text of *)
(* an ID or QID is a column reference (rel is empty for an ID), the text   *)
(* of an INT its sign and decimal digits.                                  *)
(***************************************************************************)
Tok(type, rel, col, text, digits) ==
    [type |-> type, rel |-> rel, col |-> col, text |-> text, digits |-> digits]

TFrom == Tok("FROM", "", "", "from", <<>>)
TWhere == Tok("WHERE", "", "", "where", <<>>)
TStar == Tok("STAR", "", "*", "", <<>>)
TDot == Tok("DOT", "", "", ".", <<>>)
TAnd == Tok("AND", "", "", "and", <<>>)
TOr == Tok("OR", "", "", "or", <<>>)
TNot == Tok("NOT", "", "", "not", <<>>)
TLparen == Tok("LPAREN", "", "", "(", <<>>)
TRparen == Tok("RPAREN", "", "", ")", <<>>)
TOp(o) == Tok("OP", "", "", o, <<>>)
TInt(sign, digits) == Tok("INT", "", "", sign, digits)
TString(type, str) == Tok(type, "", "", str, <<>>)
TId(n) == Tok("ID", "", n, "", <<>>)
TQid(r, c) == Tok("QID", r, c, "", <<>>)

\* the value of an ID or QID token: the name, qualified or not
Ref(t) == [rel |-> t.rel, col |-> t.col]

\* int(value) of an INT token
RECURSIVE DigitsValue(_)
DigitsValue(ds) ==
    IF ds = <<>> THEN 0 ELSE 10 * DigitsValue(SubSeq(ds, 1, Len(ds) - 1)) + ds[Len(ds)]

int(t) == IF t.text = "-" THEN 0 - DigitsValue(t.digits) ELSE DigitsValue(t.digits)

\* tsdb.cast(':date', value): the date the text names; the keywords name
\* the moment of the call
cast_date(t) ==
    IF t.type = "KWDATE" THEN [date |-> "now", at |-> clock]
    ELSE [date |-> t.text, at |-> 0]

\* Lexer.accept_type and Lexer.expect_type look at the next token only;
\* Lexer.choice_type is expect_type for several types
accept_type(toks, pos, type) == pos <= Len(toks) /\ toks[pos].type = type
choice_type(toks, pos, types) == pos <= Len(toks) /\ toks[pos].type \in types

SyntaxError == "TSQLSyntaxError"
StarNeedsFrom == "TSQLSyntaxError: 'select *' requires a 'from' clause"

Parsed(v, pos) == [err |-> "", val |-> v, pos |-> pos]
Rejected(pos) == [err |-> SyntaxError, val |-> NoCond, pos |-> pos]

(***************************************************************************)
(* _parse_select_projection and _parse_select_from.                        *)
(***************************************************************************)
RECURSIVE ProjectionLoop(_, _, _)
ProjectionLoop(toks, pos, proj) ==
    IF choice_type(toks, pos, {"QID", "ID"})
    THEN ProjectionLoop(toks, pos + 1, Append(proj, Ref(toks[pos])))
    ELSE Parsed(proj, pos)

_parse_select_projection(toks, pos) ==
    IF ~choice_type(toks, pos, {"STAR", "QID", "ID"}) THEN Rejected(pos)
    ELSE IF toks[pos].type = "STAR" THEN Parsed(<<Ref(toks[pos])>>, pos + 1)
    ELSE ProjectionLoop(toks, pos + 1, <<Ref(toks[pos])>>)

RECURSIVE FromLoop(_, _, _)
FromLoop(toks, pos, relations) ==
    IF accept_type(toks, pos, "ID")
    THEN FromLoop(toks, pos + 1, Append(relations, toks[pos].col))
    ELSE Parsed(relations, pos)

_parse_select_from(toks, pos) ==
    IF ~accept_type(toks, pos, "FROM") THEN Parsed(<<>>, pos)
    ELSE IF ~accept_type(toks, pos + 1, "ID") THEN Rejected(pos + 1)
    ELSE FromLoop(toks, pos + 2, <<toks[pos + 1].col>>)

(***************************************************************************)
(* _parse_condition_statement: the operator, then a literal of a type the  *)
(* operator allows.                                                        *)
(***************************************************************************)
DateTypes == {"YYYYMMDD", "DDMMYY", "KWDATE"}
StringTypes == {"DQSTRING", "SQSTRING"}

\* faulty variant of LiteralTypes: any literal after any operator
LiteralTypesAny(op) == {"INT"} \cup StringTypes \cup DateTypes

\* lines 765-771
LiteralTypes(op) ==
    IF op \in {"~", "!~"} THEN StringTypes
    ELSE IF op \in {"<", "<=", ">", ">="} THEN {"INT"} \cup DateTypes
    ELSE {"INT"} \cup StringTypes \cup DateTypes

\* faulty variant of NormalOp: = is kept
NormalOpKept(o) == o

\* lines 762-763
NormalOp(o) == IF o = "=" THEN "==" ELSE o

\* faulty variant of LiteralValue: every date is read as the moment of the call
LiteralValueNow(t) ==
    IF t.type = "INT" THEN int(t)
    ELSE IF t.type \in DateTypes THEN [date |-> "now", at |-> clock]
    ELSE t.text

\* lines 773-776
LiteralValue(t) ==
    IF t.type = "INT" THEN int(t)
    ELSE IF t.type \in DateTypes THEN cast_date(t)
    ELSE t.text

_parse_condition_statement(column, toks, pos) ==
    IF ~accept_type(toks, pos, "OP") THEN Rejected(pos)
    ELSE LET op == NormalOp(toks[pos].text)
         IN IF ~choice_type(toks, pos + 1, LiteralTypes(op)) THEN Rejected(pos + 1)
            ELSE Parsed(Cmp(op, column, LiteralValue(toks[pos + 1])), pos + 2)

(***************************************************************************)
(* _parse_condition_disjunction and _parse_condition_conjunction.  A loop  *)
(* result is the list of the conditions read.                              *)
(***************************************************************************)
\* faulty variant of Combine: every list of conditions is a disjunction
CombineOr(op, conds, pos) ==
    IF Len(conds) = 0 THEN Rejected(pos)
    ELSE IF Len(conds) = 1 THEN Parsed(conds[1], pos)
    ELSE Parsed(Bool("or", conds), pos)

\* lines 729-734 and 752-757
Combine(op, conds, pos) ==
    IF Len(conds) = 0 THEN Rejected(pos)
    ELSE IF Len(conds) = 1 THEN Parsed(conds[1], pos)
    ELSE Parsed(Bool(op, conds), pos)

RECURSIVE _parse_condition_disjunction(_, _)
RECURSIVE _parse_condition_conjunction(_, _)
RECURSIVE DisjunctionLoop(_, _, _)
RECURSIVE ConjunctionLoop(_, _, _)

\* lines 723-727
DisjunctionLoop(toks, pos, conds) ==
    LET Then(c) ==
            IF c.err # "" THEN c
            ELSE IF accept_type(toks, c.pos, "OR")
            THEN DisjunctionLoop(toks, c.pos + 1, Append(conds, c.val))
            ELSE Parsed(Append(conds, c.val), c.pos)
    IN Then(_parse_condition_conjunction(toks, pos))

_parse_condition_disjunction(toks, pos) ==
    LET Then(r) == IF r.err # "" THEN r ELSE Combine("or", r.val, r.pos)
    IN Then(DisjunctionLoop(toks, pos, <<>>))

\* faulty variant of ConjunctionItem: not takes a conjunction only
ConjunctionItemTight(toks, pos) ==
    LET Negated(d) == IF d.err # "" THEN d ELSE Parsed(Not(d.val), d.pos)
        Grouped(d) ==
            IF d.err # "" THEN d
            ELSE IF ~accept_type(toks, d.pos, "RPAREN") THEN Rejected(d.pos)
            ELSE Parsed(d.val, d.pos + 1)
    IN IF ~choice_type(toks, pos, {"NOT", "LPAREN", "QID", "ID"}) THEN Rejected(pos)
       ELSE IF toks[pos].type = "NOT"
       THEN Negated(_parse_condition_conjunction(toks, pos + 1))
       ELSE IF toks[pos].type = "LPAREN"
       THEN Grouped(_parse_condition_disjunction(toks, pos + 1))
       ELSE _parse_condition_statement(Ref(toks[pos]), toks, pos + 1)

\* lines 740-747: the condition that starts at pos
ConjunctionItem(toks, pos) ==
    LET Negated(d) == IF d.err # "" THEN d ELSE Parsed(Not(d.val), d.pos)
        Grouped(d) ==
            IF d.err # "" THEN d
            ELSE IF ~accept_type(toks, d.pos, "RPAREN") THEN Rejected(d.pos)
            ELSE Parsed(d.val, d.pos + 1)
        Then(d) == IF toks[pos].type = "NOT" THEN Negated(d) ELSE Grouped(d)
    IN IF ~choice_type(toks, pos, {"NOT", "LPAREN", "QID", "ID"}) THEN Rejected(pos)
       ELSE IF toks[pos].type \in {"NOT", "LPAREN"}
       THEN Then(_parse_condition_disjunction(toks, pos + 1))
       ELSE _parse_condition_statement(Ref(toks[pos]), toks, pos + 1)

\* lines 739-750
ConjunctionLoop(toks, pos, conds) ==
    LET Then(c) ==
            IF c.err # "" THEN c
            ELSE IF accept_type(toks, c.pos, "AND")
            THEN ConjunctionLoop(toks, c.pos + 1, Append(conds, c.val))
            ELSE Parsed(Append(conds, c.val), c.pos)
    IN Then(ConjunctionItem(toks, pos))

_parse_condition_conjunction(toks, pos) ==
    LET Then(r) == IF r.err # "" THEN r ELSE Combine("and", r.val, r.pos)
    IN Then(ConjunctionLoop(toks, pos, <<>>))

(***************************************************************************)
(* _parse_select_where: every where clause is one condition.               *)
(***************************************************************************)
RECURSIVE WhereLoop(_, _, _)
WhereLoop(toks, pos, conditions) ==
    LET Then(d) ==
            IF d.err # "" THEN d ELSE WhereLoop(toks, d.pos, Append(conditions, d.val))
    IN IF ~accept_type(toks, pos, "WHERE") THEN Parsed(conditions, pos)
       ELSE Then(_parse_condition_disjunction(toks, pos + 1))

\* faulty variant of WhereCondition: the clauses are alternatives
WhereConditionOr(conditions) ==
    IF Len(conditions) = 0 THEN NoCond
    ELSE IF Len(conditions) = 1 THEN conditions[1]
    ELSE Bool("or", conditions)

\* lines 713-718
WhereCondition(conditions) ==
    IF Len(conditions) = 0 THEN NoCond
    ELSE IF Len(conditions) = 1 THEN conditions[1]
    ELSE Bool("and", conditions)

_parse_select_where(toks, pos) ==
    LET Then(r) == IF r.err # "" THEN r ELSE Parsed(WhereCondition(r.val), r.pos)
    IN Then(WhereLoop(toks, pos, <<>>))

(***************************************************************************)
(* _parse_select on the tokens of the query text: the text gets a final    *)
(* '.' that marks its end.                                                 *)
(***************************************************************************)
NoQuery == Query(<<>>, <<>>, NoCond)

\* faulty variant of StarWithoutFrom: the from clause is not required
StarWithoutFromAllowed(proj, relations) == FALSE

\* line 676
StarWithoutFrom(proj, relations) == proj = Star /\ relations = <<>>

_parse_select(tokens_) ==
    LET toks == Append(tokens_, TDot)
        AfterWhere(p, r, c) ==
            IF c.err # "" THEN [err |-> c.err, query |-> NoQuery]
            ELSE IF ~accept_type(toks, c.pos, "DOT")
            THEN [err |-> SyntaxError, query |-> NoQuery]
            ELSE IF StarWithoutFrom(p.val, r.val)
            THEN [err |-> StarNeedsFrom, query |-> NoQuery]
            ELSE [err |-> "", query |-> Query(p.val, r.val, c.val)]
        AfterFrom(p, r) ==
            IF r.err # "" THEN [err |-> r.err, query |-> NoQuery]
            ELSE AfterWhere(p, r, _parse_select_where(toks, r.pos))
        AfterProjection(p) ==
            IF p.err # "" THEN [err |-> p.err, query |-> NoQuery]
            ELSE AfterFrom(p, _parse_select_from(toks, p.pos))
    IN AfterProjection(_parse_select_projection(toks, 1))

(***************************************************************************)
(* _parse_query on a query string: its first word is the query type, the   *)
(* rest is the text of the query.                                          *)
(***************************************************************************)
_parse_query(words) ==
    IF words # <<>> /\ Head(words).col \in {"select", "retrieve"}
    THEN _parse_select(Tail(words))
    ELSE [err |-> SyntaxError, query |-> NoQuery]

(***************************************************************************)
(* The text of a query, as tokens: the names of the projection, the from   *)
(* clause, one where clause.  Nested conditions are written in             *)
(* parentheses.                                                            *)
(***************************************************************************)
Digits(n) == IF n < 10 THEN <<n>> ELSE <<n \div 10, n % 10>>

RefToken(q) ==
    IF q = Bare("*") THEN TStar ELSE IF q.rel = "" THEN TId(q.col) ELSE TQid(q.rel, q.col)

RECURSIVE CondTokens(_)
RECURSIVE SeparatedTokens(_, _)
SeparatedTokens(cs, sep) ==
    LET one == IF Head(cs).op \in {"and", "or", "not"}
               THEN <<TLparen>> \o CondTokens(Head(cs)) \o <<TRparen>>
               ELSE CondTokens(Head(cs))
    IN IF Len(cs) = 1 THEN one ELSE one \o <<sep>> \o SeparatedTokens(Tail(cs), sep)

CondTokens(c) ==
    IF c.op = "and" THEN SeparatedTokens(c.body, TAnd)
    ELSE IF c.op = "or" THEN SeparatedTokens(c.body, TOr)
    ELSE IF c.op = "not" THEN <<TNot, TLparen>> \o CondTokens(c.child) \o <<TRparen>>
    ELSE <<RefToken(c.col), TOp(c.op), TInt("", Digits(c.val))>>

QueryTokens(q) ==
    [i \in 1..Len(q.projection) |-> RefToken(q.projection[i])]
    \o (IF q.relations = <<>> THEN <<>>
        ELSE <<TFrom>> \o [i \in 1..Len(q.relations) |-> TId(q.relations[i])])
    \o (IF q.condition = NoCond THEN <<>> ELSE <<TWhere>> \o CondTokens(q.condition))

(***************************************************************************)
(* A schema with the single relation item(i-id, i-input), any of the two   *)
(* a key, with its three rows in any order, and the query texts on it.     *)
(***************************************************************************)
ItemRows == {<<10, 1>>, <<20, 2>>, <<30, 1>>}

DbItem(keys, rows) ==
    Database(<< Rel("item", <<Field("i-id", "i-id" \in keys),
                             Field("i-input", "i-input" \in keys)>>) >>,
             [r \in {"item"} |-> rows])

\* <projection> [from item [item ...]]
ItemSelects ==
    {p \o f : p \in {<<TStar>>} \cup SeqsOf({TId("i-id"), TId("i-input")}, 1, MaxProj),
              f \in {<<>>} \cup {<<TFrom>> \o r : r \in SeqsOf({TId("item")}, 1, MaxFrom)}}

\* the bodies of where clauses
ItemBodies ==
    LET X == <<TId("i-id"), TOp("="), TInt("", <<1, 0>>)>>
        Y == <<TId("i-id"), TOp("="), TInt("", <<2, 0>>)>>
        Z == <<TId("i-input"), TOp("=="), TInt("", <<1>>)>>
        W == <<TQid("item", "i-id"), TOp(">="), TInt("+", <<2, 0>>)>>
    IN { X, W,
         X \o <<TOr>> \o Y,
         Y \o <<TAnd>> \o Z,
         <<TNot>> \o X,
         <<TLparen>> \o X \o <<TOr>> \o Y \o <<TRparen>>,
         X \o <<TOr>> \o Y \o <<TAnd>> \o Z }

\* <projection> from item [where A [where B]]
ItemFilters ==
    {p \o <<TFrom, TId("item")>> \o w :
        p \in {<<TId("i-id")>>, <<TId("i-input"), TId("i-id")>>},
        w \in {<<TWhere>> \o a : a \in ItemBodies}
              \cup {<<TWhere>> \o a \o <<TWhere>> \o b : a \in ItemBodies, b \in ItemBodies}}

(***************************************************************************)
(* Query texts for the parser alone: where parts built from whole          *)
(* comparisons, token runs in the place of one comparison, the two         *)
(* spellings of X or Y and Z, and token runs in the place of the           *)
(* projection and the from clause.                                         *)
(***************************************************************************)
CmpX == <<TId("i-id"), TOp("="), TInt("", <<1, 0>>)>>
CmpY == <<TQid("item", "i-input"), TOp("~"), TString("DQSTRING", "dog")>>
CmpZ == <<TId("i-id"), TOp("<"), TString("YYYYMMDD", "2018-10-07")>>
CmpW == <<TId("i-wf"), TOp("!="), TInt("-", <<1>>)>>

Pieces == {CmpX, CmpY, <<TAnd>>, <<TOr>>, <<TNot>>, <<TLparen>>, <<TRparen>>, <<TWhere>>}

PieceTexts == {<<TId("i-id")>> \o Flatten(ps) : ps \in SeqsOf(Pieces, 0, MaxPieces)}

Operators == {"=", "==", "!=", "<", "<=", ">", ">=", "~", "!~"}

Literals ==
    { TInt("", <<1, 0>>), TInt("-", <<5>>), TString("DQSTRING", "dog"),
      TString("SQSTRING", "cat"), TString("YYYYMMDD", "2018-10-07"),
      TString("DDMMYY", "7-oct-2018"), TString("KWDATE", "now") }

StmtTexts ==
    {<<TId("i-id"), TWhere>> \o ts :
        ts \in SeqsOf({TId("i-id"), TQid("item", "i-id")} \cup {TOp(o) : o \in Operators}
                      \cup Literals, 0, MaxStmt)}

PrecedenceTexts ==
    LET Cmps == {CmpX, CmpY, CmpZ, CmpW}
    IN {<<TStar, TFrom, TId("item"), TWhere>> \o x \o <<TOr>> \o y \o <<TAnd>> \o z :
            x \in Cmps, y \in Cmps, z \in Cmps}
       \cup {<<TStar, TFrom, TId("item"), TWhere>> \o x \o <<TOr, TLparen>> \o y \o <<TAnd>> \o z
                \o <<TRparen>> : x \in Cmps, y \in Cmps, z \in Cmps}

HeadTexts ==
    SeqsOf({TStar, TId("i-id"), TQid("item", "i-id"), TFrom, TWhere}, 0, MaxHead)
    \cup {h \o <<TWhere>> \o CmpX : h \in SeqsOf({TStar, TId("item"), TFrom}, 0, MaxHead - 1)}

(***************************************************************************)
(* The state before query() / select() is called.                          *)
(***************************************************************************)
\* a call on the Selection with its arguments and the Selection before it
Called(op, name, columns, how, names, before) ==
    [op |-> op, name |-> name, columns |-> columns, how |-> how, names |-> names,
     before |-> before]

NoCall == Called("", "", <<>>, "", <<>>, NewSelection)

\* nothing has been parsed, planned or joined; the holder is at p
Begin(d, toks, p) ==
    /\ db = d
    /\ tokens = toks
    /\ clock = 0
    /\ inspected = <<>>
    /\ call = NoCall
    /\ query = NoQuery
    /\ pc = p
    /\ err = ""
    /\ projection = <<>>
    /\ condition = NoCond
    /\ cond_fields = <<>>
    /\ relset = {}
    /\ joinmap = <<>>
    /\ added = {}
    /\ nodes = {}
    /\ edges = {}
    /\ pivots = {}
    /\ components = {}
    /\ joined_keys = {}
    /\ joins = <<>>
    /\ selection = NewSelection
    /\ result = <<>>
    /\ pivot_iters = 0
    /\ order_passes = 0
    /\ comps_before = 0
    /\ keys_before = {}
    /\ jnext = 1

Start(d, toks) == Begin(d, toks, "parse")

Init ==
    \/ \E s \in 1..Len(Scenarios) :
         \E p \in Projections(Scenarios[s]), r \in FromClauses(Scenarios[s]),
            c \in 1..Len(Scenarios[s].conds) :
              Start(Scenarios[s].db, QueryTokens(Query(p, r, Scenarios[s].conds[c])))
    \/ \E sc \in GenericScenarios :
         \E p \in Projections(sc), r \in FromClauses(sc) :
              Start(sc.db, QueryTokens(Query(p, r, NoCond)))
    \/ \E keys \in SUBSET {"i-id", "i-input"}, rows \in Orders(ItemRows) :
         \E toks \in ItemSelects : Start(DbItem(keys, rows), toks)
    \/ \E rows \in Orders(ItemRows) :
         \E toks \in ItemFilters : Start(DbItem({"i-id"}, rows), toks)

\* an exception ends the query where it is raised
Raise(e) == err' = e /\ UNCHANGED pc

(***************************************************************************)
(* select, line 248: the query text is parsed.                             *)
(***************************************************************************)
Parse ==
    /\ pc = "parse"
    /\ err = ""
    /\ LET Then(r) ==
               IF r.err # ""
               THEN Raise(r.err) /\ UNCHANGED query
               ELSE query' = r.query /\ pc' = "plan" /\ UNCHANGED err
       IN Then(_parse_select(tokens))
    /\ UNCHANGED <<db, tokens, clock, inspected, call, projection, condition, cond_fields, relset, joinmap, added,
                   nodes, edges, pivots, components, joined_keys, joins, selection, result,
                   pivot_iters, order_passes, comps_before, keys_before, jnext>>

(***************************************************************************)
(* _make_execution_plan, lines 284-296: the names are resolved.            *)
(***************************************************************************)
ResolveError(d, q) ==
    LET schema_map == _make_schema_map(d, q.relations)
    IN IF q.projection = Star /\ ~(SeqToSet(q.relations) \subseteq RelNames(d)) THEN "KeyError"
       ELSE IF q.projection # Star /\ \E i \in 1..Len(q.projection) : Undefined(schema_map, q.projection[i])
       THEN "undefined column"
       ELSE IF q.condition # NoCond
               /\ \E i \in 1..Len(CondRefs(q.condition)) : Undefined(schema_map, CondRefs(q.condition)[i])
       THEN "undefined column"
       ELSE ""

ResolveProjection(d, q) ==
    IF q.projection = Star THEN _project_all(q.relations, d)
    ELSE [i \in 1..Len(q.projection) |-> resolve(_make_schema_map(d, q.relations), q.projection[i])]

Resolve ==
    /\ pc = "plan"
    /\ err = ""
    /\ IF ResolveError(db, query) # ""
       THEN /\ Raise(ResolveError(db, query))
            /\ UNCHANGED <<projection, condition, cond_fields>>
       ELSE /\ projection' = ResolveProjection(db, query)
            /\ condition' = IF query.condition = NoCond THEN NoCond
                            ELSE ResolveCond(_make_schema_map(db, query.relations), query.condition)
            /\ cond_fields' = IF query.condition = NoCond THEN <<>>
                              ELSE CondFields(_make_schema_map(db, query.relations), query.condition)
            /\ pc' = "seed"
            /\ UNCHANGED err
    /\ UNCHANGED <<db, tokens, clock, inspected, call, query, relset, joinmap, added, nodes, edges, pivots, components,
                   joined_keys, joins, selection, result, pivot_iters, order_passes,
                   comps_before, keys_before, jnext>>

(***************************************************************************)
(* _plan_joins, lines 358-366.                                             *)
(***************************************************************************)
PlanSeed ==
    /\ pc = "seed"
    /\ err = ""
    /\ LET seeded == SeedJoinmap(projection \o cond_fields, <<>>, {})
       IN /\ joinmap' = seeded.joinmap
          /\ added' = seeded.added
    /\ relset' = SeedRelset(query.relations, projection \o cond_fields)
    /\ pc' = "pivot_init"
    /\ UNCHANGED <<db, tokens, clock, inspected, call, query, err, projection, condition, cond_fields, nodes, edges, pivots,
                   components, joined_keys, joins, selection, result, pivot_iters,
                   order_passes, comps_before, keys_before, jnext>>

(***************************************************************************)
(* _pivot_relations, lines 409-423: keymap[rel] of a relation the schema   *)
(* does not have is a KeyError.                                            *)
(***************************************************************************)
PivotInit ==
    /\ pc = "pivot_init"
    /\ err = ""
    /\ IF ~(relset \subseteq RelNames(db))
       THEN /\ Raise("KeyError")
            /\ UNCHANGED <<nodes, edges, components>>
       ELSE /\ nodes' = PivotNodes(relset, _make_keymap(db))
            /\ edges' = PivotEdges(relset, _make_keymap(db))
            /\ components' = _connected_components(nodes', edges')
            /\ pc' = "pivot"
            /\ UNCHANGED err
    /\ pivots' = {}
    /\ UNCHANGED <<db, tokens, clock, inspected, call, query, projection, condition, cond_fields, relset, joinmap, added,
                   joined_keys, joins, selection, result, pivot_iters, order_passes,
                   comps_before, keys_before, jnext>>

(***************************************************************************)
(* _pivot_relations, lines 424-438: one iteration of the while loop.       *)
(***************************************************************************)
PivotStep ==
    /\ pc = "pivot"
    /\ err = ""
    /\ Cardinality(components) > 1
    /\ pivot_iters' = pivot_iters + 1
    /\ LET rel == FindPivot(db, _make_keymap(db), relset, pivots, components)
       IN IF rel = ""
          THEN /\ Raise("could not find relation to join")
               /\ UNCHANGED <<nodes, edges, pivots, components, comps_before>>
          ELSE /\ nodes' = nodes \cup SeqToSet(_make_keymap(db)[rel])
               /\ edges' = edges \cup add_edges(_make_keymap(db)[rel])
               /\ pivots' = pivots \cup {rel}
               /\ components' = _connected_components(nodes', edges')
               /\ comps_before' = Cardinality(components)
               /\ UNCHANGED <<pc, err>>
    /\ UNCHANGED <<db, tokens, clock, inspected, call, query, projection, condition, cond_fields, relset, joinmap, added,
                   joined_keys, joins, selection, result, order_passes, keys_before, jnext>>

\* lines 424, 440 and 369: the loop ends, relset.update(pivots)
PivotDone ==
    /\ pc = "pivot"
    /\ err = ""
    /\ Cardinality(components) <= 1
    /\ relset' = relset \cup pivots
    /\ pc' = "keys"
    /\ UNCHANGED <<db, tokens, clock, inspected, call, query, err, projection, condition, cond_fields, joinmap, added, nodes,
                   edges, pivots, components, joined_keys, joins, selection, result,
                   pivot_iters, order_passes, comps_before, keys_before, jnext>>

(***************************************************************************)
(* _plan_joins, lines 370-376: relset is iterated in some order.           *)
(***************************************************************************)
AddKeysStep ==
    /\ pc = "keys"
    /\ err = ""
    /\ \E ord \in Orders(relset) : joinmap' = AddKeys(joinmap, ord, db, added)
    /\ joined_keys' = {}
    /\ joins' = <<>>
    /\ pc' = "order"
    /\ UNCHANGED <<db, tokens, clock, inspected, call, query, err, projection, condition, cond_fields, relset, added, nodes,
                   edges, pivots, components, selection, result, pivot_iters, order_passes,
                   comps_before, keys_before, jnext>>

(***************************************************************************)
(* _plan_joins, lines 380-389: one iteration of the while loop.            *)
(***************************************************************************)
OrderStep ==
    /\ pc = "order"
    /\ err = ""
    /\ joinmap # <<>>
    /\ order_passes' = order_passes + 1
    /\ LET i == OrderPick(joinmap, joins, joined_keys)
       IN IF i = 0
          THEN /\ Raise("infinite loop detected!")
               /\ UNCHANGED <<joinmap, joins, joined_keys, keys_before>>
          ELSE /\ joins' = Append(joins, joinmap[i])
               /\ joinmap' = RemoveAt(joinmap, i)
               /\ joined_keys' = OrderKeys(joined_keys, _make_keymap(db), joinmap[i].rel)
               /\ keys_before' = joined_keys
               /\ UNCHANGED <<pc, err>>
    /\ UNCHANGED <<db, tokens, clock, inspected, call, query, projection, condition, cond_fields, relset, added, nodes, edges,
                   pivots, components, selection, result, pivot_iters, comps_before, jnext>>

\* lines 380 and 391: the loop ends, the plan is returned; _select, 265
OrderDone ==
    /\ pc = "order"
    /\ err = ""
    /\ joinmap = <<>>
    /\ selection' = NewSelection
    /\ jnext' = 1
    /\ pc' = "join"
    /\ UNCHANGED <<db, tokens, clock, inspected, call, query, err, projection, condition, cond_fields, relset, joinmap, added,
                   nodes, edges, pivots, components, joined_keys, joins, result, pivot_iters,
                   order_passes, comps_before, keys_before>>

(***************************************************************************)
(* _select, lines 267-268: one iteration of the for loop, a call of _join. *)
(***************************************************************************)
JoinStep ==
    /\ pc = "join"
    /\ err = ""
    /\ jnext <= Len(joins)
    /\ LET j == _join(selection, db, joins[jnext].rel, joins[jnext].cols, "inner")
       IN IF j.err # ""
          THEN /\ Raise(j.err)
               /\ UNCHANGED <<selection, jnext>>
          ELSE /\ selection' = j.sel
               /\ jnext' = jnext + 1
               /\ UNCHANGED <<pc, err>>
    /\ UNCHANGED <<db, tokens, clock, inspected, call, query, projection, condition, cond_fields, relset, joinmap, added, nodes,
                   edges, pivots, components, joined_keys, joins, result, pivot_iters,
                   order_passes, comps_before, keys_before>>

(***************************************************************************)
(* _select, lines 270-275: the filter and the projection.                  *)
(***************************************************************************)
Select ==
    /\ pc = "join"
    /\ err = ""
    /\ jnext > Len(joins)
    /\ LET f == Finish(selection, condition, projection)
       IN IF f.err # ""
          THEN Raise(f.err) /\ UNCHANGED selection
          ELSE selection' = f.sel /\ pc' = "selected" /\ UNCHANGED err
    /\ UNCHANGED <<db, tokens, clock, inspected, call, query, projection, condition, cond_fields, relset, joinmap, added, nodes,
                   edges, pivots, components, joined_keys, joins, result, pivot_iters,
                   order_passes, comps_before, keys_before, jnext>>

(***************************************************************************)
(* Selection.__iter__: the caller reads the rows.                          *)
(***************************************************************************)
Iterate ==
    /\ pc = "selected"
    /\ err = ""
    /\ LET r == Rows(selection)
       IN IF r.err # ""
          THEN Raise(r.err) /\ UNCHANGED result
          ELSE result' = r.rows /\ pc' = "done" /\ UNCHANGED err
    /\ UNCHANGED <<db, tokens, clock, inspected, call, query, projection, condition, cond_fields, relset, joinmap, added, nodes,
                   edges, pivots, components, joined_keys, joins, selection, pivot_iters,
                   order_passes, comps_before, keys_before, jnext>>

Next ==
    \/ Parse
    \/ Resolve
    \/ PlanSeed
    \/ PivotInit
    \/ PivotStep
    \/ PivotDone
    \/ AddKeysStep
    \/ OrderStep
    \/ OrderDone
    \/ JoinStep
    \/ Select
    \/ Iterate

Spec == Init /\ [][Next]_vars

(***************************************************************************)
(* The parser alone, on the query texts above.                             *)
(***************************************************************************)
ParseInit ==
    \E toks \in PieceTexts \cup StmtTexts \cup PrecedenceTexts \cup HeadTexts :
        Start(DbTsdb, toks)

ParseNext == Parse

ParseSpec == ParseInit /\ [][ParseNext]_vars

(***************************************************************************)
(* _join called directly on a new Selection, any number of times: any      *)
(* relation of the schema, one or two of its columns, any join method.     *)
(* err is the exception of the last call.                                  *)
(***************************************************************************)
JoinDbs == {DbTsdb, DbMixed}

JoinMethods == {"inner", "left", "outer"}

JoinColumns(name) ==
    LET N == SeqToSet(FieldNames(SchemaFields(db, name)))
    IN {<<a>> : a \in N} \cup {<<a, b>> : a \in N, b \in N}
       \cup {FieldNames(SchemaFields(db, name))}

JoinInit == \E d \in JoinDbs : Begin(d, <<>>, "joins")

JoinCall ==
    /\ pc = "joins"
    /\ Cardinality(selection.joined) < MaxJoins
    /\ \E name \in RelNames(db), how \in JoinMethods :
         \E columns \in JoinColumns(name) :
            LET Then(j) ==
                    /\ selection' = j.sel
                    /\ err' = j.err
                    /\ call' = Called("join", name, columns, how, <<>>, selection)
            IN Then(_join(selection, db, name, columns, how))
    /\ UNCHANGED <<db, tokens, clock, inspected, query, pc, projection, condition,
                   cond_fields, relset, joinmap, added, nodes, edges, pivots, components,
                   joined_keys, joins, result, pivot_iters, order_passes, comps_before,
                   keys_before, jnext>>

JoinNext == JoinCall

JoinSpec == JoinInit /\ [][JoinNext]_vars

(***************************************************************************)
(* The holder of the Selection that select() returned iterates it and      *)
(* calls its select method, any number of times.  err is the exception of  *)
(* the last call and result the rows it yielded.                           *)
(***************************************************************************)
SelectionQueries ==
    { Query(Star, <<"item">>, NoCond),
      Query(Star, <<"item", "result">>, NoCond),
      Query(<<Bare("i-input")>>, <<"result">>, NoCond),
      Query(<<Bare("i-id"), Bare("mrs"), Bare("i-input")>>, <<>>,
            Cmp(">", Bare("result-id"), 0)),
      Query(<<Q("item", "i-id"), Bare("i-input")>>, <<"item">>, Cmp("==", Bare("i-input"), 1)) }

SelectNames ==
    LET N == {Bare("i-id"), Q("item", "i-input"), Bare("mrs"), Bare("zz")}
    IN {<<>>} \cup {<<a>> : a \in N} \cup {<<a, b>> : a \in N, b \in N}

SelectionInit == \E q \in SelectionQueries : Start(DbTsdb, QueryTokens(q))

\* list(selection), lines 160-164
IterCall ==
    /\ pc = "done"
    /\ LET Then(r) == err' = r.err /\ result' = r.rows
       IN Then(Rows(selection))
    /\ call' = Called("iter", "", <<>>, "", <<>>, selection)
    /\ UNCHANGED <<db, tokens, clock, inspected, query, pc, projection, condition,
                   cond_fields, relset, joinmap, added, nodes, edges, pivots, components,
                   joined_keys, joins, selection, pivot_iters, order_passes, comps_before,
                   keys_before, jnext>>

\* list(selection.select(*names)), lines 166-176
SelectCall ==
    /\ pc = "done"
    /\ \E names \in SelectNames :
         /\ IF SelectOk(selection, names)
            THEN err' = "" /\ result' = Selection_select(selection, names)
            ELSE err' = "KeyError" /\ result' = <<>>
         /\ call' = Called("select", "", <<>>, "", names, selection)
    /\ UNCHANGED <<db, tokens, clock, inspected, query, pc, projection, condition,
                   cond_fields, relset, joinmap, added, nodes, edges, pivots, components,
                   joined_keys, joins, selection, pivot_iters, order_passes, comps_before,
                   keys_before, jnext>>

SelectionNext == Next \/ IterCall \/ SelectCall

SelectionSpec == SelectionInit /\ [][SelectionNext]_vars

(***************************************************************************)
(* inspect_query called on one query string at several moments.  An entry  *)
(* of inspected is the moment of a call and what the call returned.        *)
(***************************************************************************)
InspectTexts ==
    {<<TId(type), TId("i-id"), TWhere, TId("i-id"), TOp(o), lit>> :
        type \in {"select", "retrieve", "info"}, o \in {"<", "==", "~"}, lit \in Literals}
    \cup {<<TId("select"), TId("i-id"), TWhere, TId("i-id"), TOp("<"), a, TOr,
            TQid("item", "i-id"), TOp(">="), b>> :
            a \in Literals, b \in {TString("KWDATE", "now"), TInt("", <<1, 0>>)}}

InspectInit == \E words \in InspectTexts : Begin(DbTsdb, words, "inspect")

\* inspect_query, line 195
Inspect ==
    /\ pc = "inspect"
    /\ Len(inspected) < MaxInspects
    /\ inspected' = Append(inspected, [at |-> clock, returned |-> _parse_query(tokens)])
    /\ UNCHANGED <<db, tokens, clock, call, query, pc, err, projection, condition,
                   cond_fields, relset, joinmap, added, nodes, edges, pivots, components,
                   joined_keys, joins, selection, result, pivot_iters, order_passes,
                   comps_before, keys_before, jnext>>

\* time passes between two calls
Tick ==
    /\ pc = "inspect"
    /\ clock < MaxClock
    /\ clock' = clock + 1
    /\ UNCHANGED <<db, tokens, inspected, call, query, pc, err, projection, condition,
                   cond_fields, relset, joinmap, added, nodes, edges, pivots, components,
                   joined_keys, joins, selection, result, pivot_iters, order_passes,
                   comps_before, keys_before, jnext>>

InspectNext == Inspect \/ Tick

InspectSpec == InspectInit /\ [][InspectNext]_vars

(***************************************************************************)
(* Properties.                                                             *)
(***************************************************************************)
CouldNotFind == "could not find relation to join"
InfiniteLoop == "infinite loop detected!"
JoinedTwice == "cannot join the same relation twice"
UndefinedColumn == "undefined column"

\* the relations the query names: from clause, projection, condition
Named == SeedRelset(query.relations, projection \o cond_fields)

\* the while loop of _pivot_relations has been entered or passed
PivotSearched == pivot_iters >= 1 \/ pc \in {"keys", "order", "join", "selected", "done"}
\* _pivot_relations has returned
PivotSucceeded == pc \in {"keys", "order", "join", "selected", "done"}
\* _plan_joins has returned
PlanReturned == pc \in {"join", "selected", "done"}
Terminal == pc = "done" \/ err # ""

KeySet(rel) == SeqToSet(_make_keymap(db)[rel])
JoinRels == {joins[i].rel : i \in 1..Len(joins)}
Position(rel) == CHOOSE i \in 1..Len(joins) : joins[i].rel = rel

\* the components of the key-name graph of a set of relations
ComponentsOf(rels) ==
    _connected_components(PivotNodes(rels, _make_keymap(db)), PivotEdges(rels, _make_keymap(db)))

\* rel has keys in two different components
TouchesTwo(rel, comps) ==
    \E c1, c2 \in comps : c1 # c2 /\ c1 \cap KeySet(rel) # {} /\ c2 \cap KeySet(rel) # {}

\* no relation outside selected, with more than one key, touches two components
NoBridge(comps, selected) ==
    \A rel \in RelNames(db) \ selected : Cardinality(KeySet(rel)) > 1 => ~TouchesTwo(rel, comps)

\* C1: in a returned join order every relation but the first shares one of
\* its own key columns with the keys of the relations before it
C1_NoCrossProduct ==
    PlanReturned =>
        \A i \in 2..Len(joins) :
            KeySet(joins[i].rel) \cap UNION {KeySet(joins[j].rel) : j \in 1..(i - 1)} # {}

\* C2 as stated: with R1(a), R2(a, b), R3(b) and a query naming only R1
\* and R3, R2 is the pivot and comes before R3 in the join order
C2_PivotBeforeR3 ==
    (db = Db123 /\ PlanReturned /\ Named = {"R1", "R3"}) =>
        /\ pivots = {"R2"}
        /\ Position("R2") < Position("R3")

\* C2 as amended: R2 is the pivot, a plan is returned, and R2 is joined
\* between R1 and R3, whichever of the two the query requests first
C2_PivotBetween ==
    (db = Db123 /\ PivotSearched /\ Named = {"R1", "R3"}) =>
        /\ err \notin {CouldNotFind, InfiniteLoop}
        /\ PlanReturned =>
            /\ pivots = {"R2"}
            /\ JoinRels = {"R1", "R2", "R3"}
            /\ Len(joins) = 3
            /\ \/ Position("R1") < Position("R2") /\ Position("R2") < Position("R3")
               \/ Position("R3") < Position("R2") /\ Position("R2") < Position("R1")
            /\ joins[1].rel = "R1" => Position("R2") < Position("R3")

C2_Witness ==
    /\ db = Db123
    /\ pc = "done"
    /\ Named = {"R1", "R3"}
    /\ joins[1].rel = "R3"
    /\ joins[2].rel = "R2"

\* C3: if the relations the query names fall into several components and
\* no other relation with more than one key has keys in two of them, the
\* pivot search raises 'could not find relation to join' and nothing is
\* planned or returned
C3_NoPivotRaises ==
    (PivotSearched /\ Cardinality(ComponentsOf(Named)) > 1 /\ NoBridge(ComponentsOf(Named), Named)) =>
        /\ err = CouldNotFind
        /\ pc = "pivot"
        /\ pivots = {}
        /\ joins = <<>>
        /\ result = <<>>

C3_Witness ==
    /\ db = Db13
    /\ Named = {"R1", "R3"}
    /\ pivot_iters = 1
    /\ err = CouldNotFind

\* a from clause that names a relation twice
DupFrom == \E i, j \in 1..Len(query.relations) : i # j /\ query.relations[i] = query.relations[j]

\* C4 as stated, on its example: select i-id from item item ends with
\* 'cannot join the same relation twice'
C4_DuplicateFromFails ==
    (db = DbTsdb /\ query = Query(<<Bare("i-id")>>, <<"item", "item">>, NoCond) /\ Terminal) =>
        err = JoinedTwice

\* C4 as amended: a from clause that names a relation twice never ends in
\* 'cannot join the same relation twice'; the relation is planned once
C4_DuplicateFromJoinedOnce ==
    DupFrom =>
        /\ err # JoinedTwice
        /\ \A i, j \in 1..Len(joinmap) : joinmap[i].rel = joinmap[j].rel => i = j
        /\ \A i, j \in 1..Len(joins) : joins[i].rel = joins[j].rel => i = j
        /\ Cardinality(selection.joined) = jnext - 1

C4_Witness ==
    /\ db = DbTsdb
    /\ query = Query(<<Bare("i-id")>>, <<"item", "item">>, NoCond)
    /\ pc = "done"
    /\ joins = <<[rel |-> "item", cols |-> <<"i-id">>]>>
    /\ result = << <<10>>, <<20>>, <<30>> >>

\* the column references of the query
QueryRefs == (IF query.projection = Star THEN {} ELSE SeqToSet(query.projection))
             \cup (IF query.condition = NoCond THEN {} ELSE SeqToSet(CondRefs(query.condition)))

\* C5: a query that refers to a column no relation of the schema defines,
\* by a bare or a qualified name, ends with 'undefined column'
C5_UndefinedColumnError ==
    ((\E ref \in QueryRefs : ref.col \notin AllFieldNames(db)) /\ Terminal) =>
        err = UndefinedColumn

\* C6: once the pivot search has succeeded the join-ordering loop never
\* raises 'infinite loop detected!'
C6_NoInfiniteLoop == PivotSucceeded => err # InfiniteLoop

\* the ordering loop cannot fail when every relation to join has a key
\* field, and then every relation is ordered exactly once
OrderingSucceedsWhenKeyed ==
    (PivotSucceeded /\ \A rel \in relset : KeySet(rel) # {}) =>
        /\ err # InfiniteLoop
        /\ PlanReturned => JoinRels = relset /\ Len(joins) = Cardinality(relset)

\* adding every relation of the schema puts the keys of the named relations
\* in one component
Bridgeable ==
    \E c \in ComponentsOf(RelNames(db)) : PivotNodes(Named, _make_keymap(db)) \subseteq c

\* C7 as stated: if some set of unselected relations connects the named
\* relations, even only as a chain, the pivot search does not fail
C7_ChainBridged ==
    (PivotSearched /\ Cardinality(ComponentsOf(Named)) > 1 /\ Bridgeable) => err # CouldNotFind

\* C7 as amended: the search fails exactly when no unselected relation has
\* keys in two components of the current graph, so it fails on the chain
\* S(a), P1(a, b), P2(b, c), P3(c, d), T(d), and succeeds whenever some
\* unselected relation has keys in every component
C7_SingleRelationBridges ==
    /\ (db = DbChain /\ PivotSearched /\ Named = {"S", "T"}) => err = CouldNotFind /\ pivots = {}
    /\ err = CouldNotFind => NoBridge(components, relset \cup pivots)
    /\ (PivotSearched /\ \E rel \in RelNames(db) \ Named :
            \A c \in ComponentsOf(Named) : c \cap KeySet(rel) # {}) => err # CouldNotFind

C7_Witness ==
    /\ db = DbChain
    /\ Named = {"S", "T"}
    /\ Bridgeable
    /\ pivot_iters = 1
    /\ err = CouldNotFind

\* C8 as stated: no proper subset of the chosen pivots, and no smaller set
\* of relations, connects the key-name graph of the named relations
C8_MinimalPivots ==
    PivotSucceeded =>
        /\ \A P \in SUBSET pivots : P # pivots => Cardinality(ComponentsOf(Named \cup P)) > 1
        /\ \A P \in SUBSET (RelNames(db) \ Named) :
              Cardinality(P) < Cardinality(pivots) => Cardinality(ComponentsOf(Named \cup P)) > 1

\* C8 as amended: the chosen pivots are not named by the query, each has
\* more than one key, they connect the graph, and there are fewer of them
\* than there were components
C8_PivotsConnect ==
    PivotSucceeded =>
        /\ pivots \cap Named = {}
        /\ \A rel \in pivots : Cardinality(KeySet(rel)) > 1
        /\ Cardinality(ComponentsOf(Named \cup pivots)) <= 1
        /\ pivots # {} => Cardinality(pivots) < Cardinality(ComponentsOf(Named))
        /\ pc # "keys" => relset = Named \cup pivots

C8_Witness ==
    /\ db = DbGreedy
    /\ PivotSucceeded
    /\ Named = {"A", "B", "C"}
    /\ pivots = {"P1", "P2"}
    /\ Cardinality(ComponentsOf(Named \cup {"P2"})) = 1

\* C9: the rows a finished query yields do not depend on the order in which
\* relset is iterated
C9_Deterministic ==
    pc = "done" =>
        \A ord \in Orders(relset) :
            Outcome(db, projection, condition,
                    SeedJoinmap(projection \o cond_fields, <<>>, {}).joinmap, added, ord)
              = [err |-> "", rows |-> result]

\* the relations of joinmap when the ordering loop starts: those with a
\* requested column or a key field
PlanSize ==
    Cardinality({rel \in relset :
        \/ JmHas(SeedJoinmap(projection \o cond_fields, <<>>, {}).joinmap, rel)
        \/ KeySet(rel) # {}})

\* C10: the pivot loop makes at most as many iterations as the schema has
\* relations, the ordering loop at most one pass per relation of the join
\* map plus one
C10_LoopsBounded ==
    /\ pivot_iters <= Cardinality(RelNames(db))
    /\ pc \in {"order", "join", "selected", "done"} =>
          /\ order_passes <= PlanSize + 1
          /\ Len(joinmap) + Len(joins) = PlanSize
    /\ pc \notin {"order", "join", "selected", "done"} => order_passes = 0
    /\ PlanReturned => order_passes = Len(joins)

C10_Witness ==
    /\ pc = "done"
    /\ pivot_iters = 2
    /\ order_passes = 5

\* joined_keys was enlarged by the last relation appended to joins
KeysGrew == keys_before # joined_keys /\ keys_before \subseteq joined_keys

\* C11: each pivot added strictly decreases the number of connected
\* components, and each relation appended to the join order strictly grows
\* the joined-key set
C11_StrictProgress ==
    /\ pivots # {} => Cardinality(components) < comps_before
    /\ (err = "" /\ joins # <<>>) => KeysGrew

\* C11, the measures that do decrease: each pivot added strictly decreases
\* the number of connected components; each relation appended to the join
\* order takes one entry out of joinmap and never shrinks the joined-key
\* set, which stays the set of the keys of the relations appended
C11_Progress ==
    /\ pivots # {} => Cardinality(components) < comps_before
    /\ (pc \in {"order", "join", "selected", "done"} /\ joins # <<>>) =>
          /\ keys_before \subseteq joined_keys
          /\ joined_keys = UNION {KeySet(rel) : rel \in JoinRels}
          /\ Len(joinmap) = PlanSize - Len(joins)

\* a pivot was added, and the last relation appended had no new key
C11_Witness ==
    /\ PlanReturned
    /\ pivots # {}
    /\ Len(joins) >= 2
    /\ keys_before = joined_keys

\* the columns the projection and the condition request from a relation
Requested(rel) ==
    {q.col : q \in {q \in SeqToSet(projection \o cond_fields) : q.rel = rel}}

NoDuplicates(s) == \A i, j \in 1..Len(s) : s[i] = s[j] => i = j

\* C12: in a returned plan the column list of each relation holds every
\* key field of the relation and every column requested from it, nothing
\* else, and no column twice; each relation is planned once
C12_KeysInPlan ==
    PlanReturned =>
        /\ \A i \in 1..Len(joins) :
              /\ NoDuplicates(joins[i].cols)
              /\ KeySet(joins[i].rel) \subseteq SeqToSet(joins[i].cols)
              /\ SeqToSet(joins[i].cols) = Requested(joins[i].rel) \cup KeySet(joins[i].rel)
        /\ \A i, j \in 1..Len(joins) : joins[i].rel = joins[j].rel => i = j

\* a planned relation with one key requested by the query and another
\* added by the planner, and a relation planned for its keys only
C12_Witness ==
    /\ PlanReturned
    /\ \E i \in 1..Len(joins) :
          /\ Requested(joins[i].rel) \cap KeySet(joins[i].rel) # {}
          /\ KeySet(joins[i].rel) \ Requested(joins[i].rel) # {}
    /\ \E i \in 1..Len(joins) : Requested(joins[i].rel) = {}

\* the first position of x in the sequence s
Position_(s, x) == CHOOSE i \in 1..Len(s) : s[i] = x /\ \A j \in 1..(i - 1) : s[j] # x

\* the names of all fields of a relation, in schema order
AllColumns(rel) == FieldNames(SchemaFields(db, rel))

\* C13: on a schema with a single relation, select * from that relation
\* yields the rows of db.select_from for all columns of the relation: as
\* many rows, in the same order, each with the columns in schema order
C13_StarRoundTrip ==
    (/\ Cardinality(RelNames(db)) = 1
     /\ query.projection = Star
     /\ Len(query.relations) = 1
     /\ query.relations[1] \in RelNames(db)
     /\ Terminal) =>
        /\ pc = "done"
        /\ result = select_from(db, query.relations[1], AllColumns(query.relations[1]))
        /\ Len(result) = Len(db.rows[query.relations[1]])

\* select * from item on item(i-id, i-input :key) with its rows out of
\* key order
C13_Witness ==
    /\ db = DbItem({"i-input"}, << <<30, 1>>, <<10, 1>>, <<20, 2>> >>)
    /\ query = Query(Star, <<"item">>, NoCond)
    /\ pc = "done"
    /\ result = << <<30, 1>>, <<10, 1>>, <<20, 2>> >>

\* the truth of a condition on a row: and is all of the children, or is
\* any of them, not negates, a comparison compares the value of the row at
\* the column's index with the literal
RECURSIVE Holds(_, _, _)
Holds(c, field_index, row) ==
    IF c.op = "and" THEN \A i \in 1..Len(c.body) : Holds(c.body[i], field_index, row)
    ELSE IF c.op = "or" THEN \E i \in 1..Len(c.body) : Holds(c.body[i], field_index, row)
    ELSE IF c.op = "not" THEN ~Holds(c.child, field_index, row)
    ELSE Compare(c.op, row[field_index[c.col]], c.val)

\* the selection after the joins of the plan, before the filter
JoinedSelection == JoinAll(NewSelection, db, joins).sel

TenOrTwenty ==
    <<TId("i-id"), TFrom, TId("item"), TWhere,
      TId("i-id"), TOp("="), TInt("", <<1, 0>>), TOr, TId("i-id"), TOp("="), TInt("", <<2, 0>>)>>

\* C14: after the filter the data of the selection is the subsequence of
\* the joined rows on which the condition is true; select i-id from item
\* where i-id = 10 or i-id = 20 yields the rows of item with i-id 10 or 20,
\* in the order item has them
C14_FilterIsSubsequence ==
    /\ (pc \in {"selected", "done"} /\ condition # NoCond) =>
          selection.data = SelectSeq(JoinedSelection.data, LAMBDA row : Holds(condition, JoinedSelection.field_index, row))
    /\ (pc \in {"selected", "done"} /\ condition = NoCond) => selection.data = JoinedSelection.data
    /\ (tokens = TenOrTwenty /\ RelNames(db) = {"item"} /\ Terminal) =>
          /\ pc = "done"
          /\ result = SelectSeq(select_from(db, "item", <<"i-id">>), LAMBDA row : row[1] \in {10, 20})

\* the example on item with its rows in descending order of i-id
C14_Witness ==
    /\ tokens = TenOrTwenty
    /\ db = DbItem({"i-id"}, << <<30, 1>>, <<20, 2>>, <<10, 1>> >>)
    /\ pc = "done"
    /\ result = << <<20>>, <<10>> >>

(***************************************************************************)
(* select() as a function of the database and the query text: the         *)
(* outcomes of the runs, one for each order in which relset can be         *)
(* iterated.                                                               *)
(***************************************************************************)
Failed(e) == {[err |-> e, rows |-> <<>>]}

RECURSIVE PivotLoop(_, _, _, _, _)
PivotLoop(d, rels, ns, es, pvts) ==
    LET comps == _connected_components(ns, es)
        rel == FindPivot(d, _make_keymap(d), rels, pvts, comps)
    IN IF Cardinality(comps) <= 1 THEN [err |-> "", pivots |-> pvts]
       ELSE IF rel = "" THEN [err |-> "could not find relation to join", pivots |-> pvts]
       ELSE PivotLoop(d, rels, ns \cup SeqToSet(_make_keymap(d)[rel]),
                      es \cup add_edges(_make_keymap(d)[rel]), pvts \cup {rel})

Planned(d, q) ==
    LET schema_map == _make_schema_map(d, q.relations)
        proj == ResolveProjection(d, q)
        c == IF q.condition = NoCond THEN NoCond ELSE ResolveCond(schema_map, q.condition)
        cf == IF q.condition = NoCond THEN <<>> ELSE CondFields(schema_map, q.condition)
        seeded == SeedJoinmap(proj \o cf, <<>>, {})
        rels == SeedRelset(q.relations, proj \o cf)
    IN IF ~(rels \subseteq RelNames(d)) THEN Failed("KeyError")
       ELSE LET pv == PivotLoop(d, rels, PivotNodes(rels, _make_keymap(d)),
                                PivotEdges(rels, _make_keymap(d)), {})
            IN IF pv.err # "" THEN Failed(pv.err)
               ELSE {Outcome(d, proj, c, seeded.joinmap, seeded.added, ord) :
                        ord \in Orders(rels \cup pv.pivots)}

Outcomes(d, toks) ==
    LET r == _parse_select(toks)
    IN IF r.err # "" THEN Failed(r.err)
       ELSE IF ResolveError(d, r.query) # "" THEN Failed(ResolveError(d, r.query))
       ELSE Planned(d, r.query)

\* the outcome of the run that a state ends
Outcome_ == [err |-> err, rows |-> result]

\* the positions of the where keywords of a query text
Wheres(toks) == {i \in 1..Len(toks) : toks[i].type = "WHERE"}
First(S) == CHOOSE i \in S : \A j \in S : i <= j
Last(S) == CHOOSE i \in S : \A j \in S : j <= i

TwoClauses == Cardinality(Wheres(tokens)) = 2

\* of a text ... where A where B: the part before the first where, A, B
BeforeWhere(toks) == SubSeq(toks, 1, First(Wheres(toks)) - 1)
ClauseA(toks) == SubSeq(toks, First(Wheres(toks)) + 1, Last(Wheres(toks)) - 1)
ClauseB(toks) == SubSeq(toks, Last(Wheres(toks)) + 1, Len(toks))

\* ... where A and B
AsOneClause(toks) ==
    BeforeWhere(toks) \o <<TWhere>> \o ClauseA(toks) \o <<TAnd>> \o ClauseB(toks)

\* ... where (A) and (B)
AsOneClauseGrouped(toks) ==
    BeforeWhere(toks) \o <<TWhere, TLparen>> \o ClauseA(toks) \o <<TRparen, TAnd, TLparen>>
        \o ClauseB(toks) \o <<TRparen>>

\* C15: a query written where A where B selects the rows of the same query
\* written where A and B
C15_ClausesConjoin ==
    (TwoClauses /\ Terminal) => Outcome_ \in Outcomes(db, AsOneClause(tokens))

\* C15 with each body kept whole: where A where B parses to the condition
\* of where (A) and (B), the conjunction of the two conditions in the
\* order of the clauses, and selects the same rows
C15_ClausesConjoinGrouped ==
    (TwoClauses /\ Terminal) =>
        /\ Outcome_ \in Outcomes(db, AsOneClauseGrouped(tokens))
        /\ _parse_select(tokens) = _parse_select(AsOneClauseGrouped(tokens))
        /\ err = "" =>
              /\ query.condition.op = "and"
              /\ Len(query.condition.body) = 2

\* where i-id = 10 or i-id = 20 where item.i-id >= 20 keeps the row of 20
\* only; as one clause without parentheses it keeps the row of 10 as well
C15_Witness ==
    /\ pc = "done"
    /\ TwoClauses
    /\ ClauseA(tokens) = <<TId("i-id"), TOp("="), TInt("", <<1, 0>>), TOr,
                           TId("i-id"), TOp("="), TInt("", <<2, 0>>)>>
    /\ ClauseB(tokens) = <<TQid("item", "i-id"), TOp(">="), TInt("+", <<2, 0>>)>>
    /\ query.projection = <<Bare("i-id")>>
    /\ db = DbItem({"i-id"}, << <<10, 1>>, <<20, 2>>, <<30, 1>> >>)
    /\ result = << <<20>> >>
    /\ Outcomes(db, AsOneClause(tokens)) = {[err |-> "", rows |-> << <<10>>, <<20>> >>]}

(***************************************************************************)
(* Properties of the parser.                                               *)
(***************************************************************************)
\* _parse_select has returned or raised
ParseEnded == pc # "parse" \/ err # ""
ParseAccepted == pc # "parse"

\* the comparison that three tokens column, operator, literal spell
IsComparison(toks, i) ==
    /\ toks[i].type \in {"ID", "QID"}
    /\ toks[i + 1].type = "OP"
    /\ toks[i + 2].type \in LiteralTypes(NormalOp(toks[i + 1].text))

Leaf(toks, i) == Cmp(NormalOp(toks[i + 1].text), Ref(toks[i]), LiteralValue(toks[i + 2]))

\* * from item where X or Y and Z
IsFlat(toks) ==
    /\ Len(toks) = 15
    /\ toks[4].type = "WHERE" /\ toks[8].type = "OR" /\ toks[12].type = "AND"
    /\ IsComparison(toks, 5) /\ IsComparison(toks, 9) /\ IsComparison(toks, 13)

\* * from item where X or ( Y and Z )
IsGrouped(toks) ==
    /\ Len(toks) = 17
    /\ toks[4].type = "WHERE" /\ toks[8].type = "OR" /\ toks[9].type = "LPAREN"
    /\ toks[13].type = "AND" /\ toks[17].type = "RPAREN"
    /\ IsComparison(toks, 5) /\ IsComparison(toks, 10) /\ IsComparison(toks, 14)

Ungrouped(toks) == SubSeq(toks, 1, 8) \o SubSeq(toks, 10, 16)

\* C16: where X or Y and Z and where X or (Y and Z) parse to the same
\* condition, the disjunction of X and the conjunction of Y and Z
C16_ConjunctionBindsTighter ==
    /\ (ParseEnded /\ IsFlat(tokens)) =>
          /\ err = ""
          /\ query.condition =
                Bool("or", <<Leaf(tokens, 5), Bool("and", <<Leaf(tokens, 9), Leaf(tokens, 13)>>)>>)
    /\ (ParseEnded /\ IsGrouped(tokens)) =>
          /\ err = ""
          /\ query.condition =
                Bool("or", <<Leaf(tokens, 5), Bool("and", <<Leaf(tokens, 10), Leaf(tokens, 14)>>)>>)
          /\ _parse_select(Ungrouped(tokens)) = [err |-> "", query |-> query]

\* the example of the module docstring, with and without parentheses
C16_Witness ==
    /\ ParseAccepted
    /\ IsGrouped(tokens)
    /\ IsFlat(Ungrouped(tokens))
    /\ query.condition =
          Bool("or", <<Cmp("==", Bare("i-id"), 10),
                       Bool("and", <<Cmp("<", Bare("i-id"), [date |-> "2018-10-07", at |-> 0]),
                                     Cmp("~", Q("item", "i-input"), "dog")>>)>>)

\* the comparisons of a condition, left to right
RECURSIVE Leaves(_)
Leaves(c) ==
    IF c.op = "none" THEN <<>>
    ELSE IF c.op \in {"and", "or"} THEN Flatten([i \in 1..Len(c.body) |-> Leaves(c.body[i])])
    ELSE IF c.op = "not" THEN Leaves(c.child)
    ELSE <<c>>

\* the positions of the operators of a query text, left to right
OpPositions(toks) == SelectSeq([i \in 1..Len(toks) |-> i], LAMBDA i : toks[i].type = "OP")

\* the literal types the operator-to-literal typing allows
TypingAllows(o, type) ==
    \/ o \in {"~", "!~"} /\ type \in {"DQSTRING", "SQSTRING"}
    \/ o \in {"<", "<=", ">", ">="} /\ type \in {"INT", "YYYYMMDD", "DDMMYY", "KWDATE"}
    \/ o \in {"=", "==", "!="}
          /\ type \in {"INT", "DQSTRING", "SQSTRING", "YYYYMMDD", "DDMMYY", "KWDATE"}

WellTyped(toks, i) == i < Len(toks) /\ TypingAllows(toks[i].text, toks[i + 1].type)

\* C17: the comparisons of a condition the parser returns are those the
\* text spells, each with a literal of a type its operator allows and the
\* value of that literal; a text with an operator followed by anything else
\* is rejected with a syntax error and gives no query
C17_LiteralTyping ==
    ParseEnded =>
        LET ops == OpPositions(tokens)
        IN /\ (\E k \in 1..Len(ops) : ~WellTyped(tokens, ops[k])) =>
                 err = SyntaxError /\ query = NoQuery
           /\ ParseAccepted =>
                 /\ Len(Leaves(query.condition)) = Len(ops)
                 /\ \A k \in 1..Len(ops) :
                       /\ WellTyped(tokens, ops[k])
                       /\ Leaves(query.condition)[k].val = LiteralValue(tokens[ops[k] + 1])
                       /\ Leaves(query.condition)[k].op
                             = (IF tokens[ops[k]].text = "=" THEN "==" ELSE tokens[ops[k]].text)

\* a condition with a regular expression, a date under < and an integer
C17_Witness ==
    /\ ParseAccepted
    /\ Len(OpPositions(tokens)) = 3
    /\ {tokens[OpPositions(tokens)[k]].text : k \in 1..3} = {"~", "<", "="}
    /\ {tokens[OpPositions(tokens)[k] + 1].type : k \in 1..3} = {"DQSTRING", "YYYYMMDD", "INT"}

\* a regular expression operator before an integer
C17_WitnessRejected ==
    /\ tokens = <<TId("i-id"), TWhere, TId("i-id"), TOp("~"), TInt("", <<1, 0>>)>>
    /\ err = SyntaxError

ComparisonOps == {"==", "!=", "<", "<=", ">", ">=", "~", "!~"}

\* a well-formed condition: and/or over two or more well-formed
\* conditions, not over one, a comparison with one of the operators
RECURSIVE WellFormed(_)
WellFormed(c) ==
    IF c.op \in {"and", "or"}
    THEN /\ DOMAIN c = {"op", "body"}
         /\ Len(c.body) >= 2
         /\ \A i \in 1..Len(c.body) : WellFormed(c.body[i])
    ELSE IF c.op = "not"
    THEN DOMAIN c = {"op", "child"} /\ WellFormed(c.child)
    ELSE /\ DOMAIN c = {"op", "col", "val"}
         /\ c.op \in ComparisonOps

HasWhere(toks) == \E i \in 1..Len(toks) : toks[i].type = "WHERE"

\* C18: every condition the parser returns is well formed, whatever the
\* nesting of parentheses and the number of where clauses; without a where
\* clause there is no condition
C18_WellFormedTree ==
    ParseAccepted =>
        IF HasWhere(tokens) THEN WellFormed(query.condition) ELSE query.condition = NoCond

\* two where clauses, a negation, and a comparison written with =
C18_Witness ==
    /\ ParseAccepted
    /\ Cardinality(Wheres(tokens)) = 2
    /\ \E i \in 1..Len(tokens) : tokens[i] = TOp("=")
    /\ query.condition.op = "and"
    /\ \E i \in 1..Len(query.condition.body) : query.condition.body[i].op = "not"

StarFirst == tokens # <<>> /\ tokens[1].type = "STAR"
HasFrom == \E i \in 1..Len(tokens) : tokens[i].type = "FROM"
NamesRelation == Len(tokens) >= 3 /\ tokens[2].type = "FROM" /\ tokens[3].type = "ID"

\* nothing of the plan or of the selection has been computed
NothingPlanned ==
    /\ query = NoQuery
    /\ projection = <<>> /\ condition = NoCond /\ cond_fields = <<>>
    /\ relset = {} /\ joinmap = <<>> /\ joins = <<>>
    /\ selection = NewSelection /\ result = <<>>

\* C19: a query * without a from clause is rejected by the parser with the
\* syntax error for it, and nothing is planned or read; a query * from
\* one or more relations is accepted by the parser
C19_StarNeedsFrom ==
    /\ (StarFirst /\ ~HasFrom) =>
          /\ pc = "parse"
          /\ NothingPlanned
          /\ ParseEnded => err = StarNeedsFrom
    /\ (StarFirst /\ NamesRelation /\ ParseEnded) =>
          /\ ParseAccepted
          /\ query.projection = Star
          /\ query.relations # <<>>
          /\ err \notin {SyntaxError, StarNeedsFrom}

\* select * where i-input = 1 on the item, parse, result schema
C19_Witness ==
    /\ db = DbTsdb
    /\ tokens = <<TStar, TWhere, TId("i-input"), TOp("=="), TInt("", <<1>>)>>
    /\ pc = "parse"
    /\ err = StarNeedsFrom

\* the wildcard over the relations of a from clause: relation by relation
\* and field by field, every field that is not a key, and a key field
\* unless a key field of that name has been listed
RECURSIVE ExpandFields(_, _, _, _)
ExpandFields(rel, fs, listed, keys_listed) ==
    IF fs = <<>> THEN [listed |-> listed, keys_listed |-> keys_listed]
    ELSE IF Head(fs).is_key /\ Head(fs).name \in keys_listed
    THEN ExpandFields(rel, Tail(fs), listed, keys_listed)
    ELSE ExpandFields(rel, Tail(fs), Append(listed, Q(rel, Head(fs).name)),
                      IF Head(fs).is_key THEN keys_listed \cup {Head(fs).name} ELSE keys_listed)

RECURSIVE Expand(_, _, _)
Expand(relations, listed, keys_listed) ==
    IF relations = <<>> THEN listed
    ELSE LET e == ExpandFields(Head(relations), SchemaFields(db, Head(relations)), listed, keys_listed)
         IN Expand(Tail(relations), e.listed, e.keys_listed)

IsKeyField(q) == q.col \in KeySet(q.rel)

Resolved == pc \notin {"parse", "plan"}

\* C20: a wildcard projection is the fields of the relations of the from
\* clause, in from-clause order then schema order, with a key field of a
\* name listed once, from the first relation of the from clause that has
\* it as a key; the rows have these columns only, and none from a pivot
\* relation, which is joined all the same
C20_WildcardExpansion ==
    (query.projection = Star /\ Resolved) =>
        /\ projection = Expand(query.relations, <<>>, {})
        /\ \A i \in 1..Len(projection) :
              /\ projection[i].rel \in SeqToSet(query.relations)
              /\ projection[i].rel \notin pivots
              /\ IsKeyField(projection[i]) =>
                    /\ \A j \in 1..Len(projection) :
                          (IsKeyField(projection[j]) /\ projection[j].col = projection[i].col)
                              => j = i
                    /\ \A k \in 1..Len(query.relations) :
                          projection[i].col \in KeySet(query.relations[k])
                              => Position_(query.relations, projection[i].rel) <= k
        /\ PlanReturned => pivots \subseteq JoinRels
        /\ pc = "done" =>
              /\ Len(result) = Len(selection.data)
              /\ \A r \in 1..Len(result) :
                    /\ Len(result[r]) = Len(projection)
                    /\ \A i \in 1..Len(projection) :
                          result[r][i] = selection.data[r][selection.field_index[projection[i]]]

\* select * from item result: parse is joined as the pivot, the rows have
\* the columns of item and result
C20_Witness ==
    /\ db = DbTsdb
    /\ query = Query(Star, <<"item", "result">>, NoCond)
    /\ pc = "done"
    /\ pivots = {"parse"}
    /\ JoinRels = {"item", "parse", "result"}
    /\ projection = <<Q("item", "i-id"), Q("item", "i-input"), Q("result", "parse-id"),
                      Q("result", "result-id"), Q("result", "mrs")>>
    /\ result = << <<10, 1, 1, 0, 5>>, <<10, 1, 1, 1, 6>>, <<30, 1, 3, 0, 5>> >>

(***************************************************************************)
(* C21.  A combination is one row of each joined relation, given by its    *)
(* position in the relation, such that every later row agrees with the     *)
(* earlier ones on the key columns they share.                             *)
(***************************************************************************)
\* the value row r of relation rel has in column n
ValueIn(rel, r, n) == db.rows[rel][r][make_field_index(SchemaFields(db, rel))[n]]

\* the key columns join k lists that an earlier join lists too
SharedKeys(js, k) ==
    {n \in SeqToSet(js[k].cols) :
        /\ n \in SeqToSet(KeysOf(SchemaFields(db, js[k].rel)))
        /\ \E m \in 1..(k - 1) : Contains(js[m].cols, n)}

\* the value of column n in combination c: that of the first join listing n
CombinationValue(js, c, n) ==
    LET m == CHOOSE m \in 1..Len(c) :
                 /\ Contains(js[m].cols, n)
                 /\ \A k \in 1..(m - 1) : ~Contains(js[k].cols, n)
    IN ValueIn(js[m].rel, c[m], n)

\* the combinations of the first k joins, in the order of the rows
RECURSIVE Combinations(_, _)
Combinations(js, k) ==
    IF k = 0 THEN << <<>> >>
    ELSE LET prev == Combinations(js, k - 1)
             rel == js[k].rel
             Match(c, r) == \A n \in SharedKeys(js, k) : ValueIn(rel, r, n) = CombinationValue(js, c, n)
             Extend(c) == LET hit == SelectSeq([r \in 1..Len(db.rows[rel]) |-> r], LAMBDA r : Match(c, r))
                          IN [m \in 1..Len(hit) |-> Append(c, hit[m])]
         IN Flatten([i \in 1..Len(prev) |-> Extend(prev[i])])

InputFromResult == QueryTokens(Query(<<Bare("i-input")>>, <<"result">>, NoCond))

\* the rows of result that have a parse row with an item row
ResultRowsMatched ==
    SelectSeq([r \in 1..Len(db.rows["result"]) |-> r],
              LAMBDA r : \E p \in 1..Len(db.rows["parse"]), i \in 1..Len(db.rows["item"]) :
                            /\ ValueIn("parse", p, "parse-id") = ValueIn("result", r, "parse-id")
                            /\ ValueIn("item", i, "i-id") = ValueIn("parse", p, "i-id"))

\* C21: result rows are never deduplicated.  After the first k planned
\* joins the selection has one row for every combination of a row of the
\* first-joined relation with matching rows of the later ones, in order,
\* and each column holds the value of the combination's row of its
\* relation; select i-input from result yields one i-input value for each
\* row of result that has matching parse and item rows, repeats included.
C21_NoDeduplication ==
    /\ (pc = "join" /\ err = "" /\ jnext > 1) =>
          LET cs == Combinations(joins, jnext - 1)
          IN /\ Len(selection.data) = Len(cs)
             /\ \A i \in 1..Len(cs), k \in 1..(jnext - 1) :
                   \A n \in SeqToSet(joins[k].cols) :
                      selection.data[i][selection.field_index[Q(joins[k].rel, n)]]
                          = ValueIn(joins[k].rel, cs[i][k], n)
    /\ (pc = "done" /\ err = "" /\ db = DbTsdb /\ tokens = InputFromResult) =>
          /\ Len(result) = Len(ResultRowsMatched)
          /\ \A i \in 1..Len(result) :
                \E p \in 1..Len(db.rows["parse"]), t \in 1..Len(db.rows["item"]) :
                   /\ ValueIn("parse", p, "parse-id")
                         = ValueIn("result", ResultRowsMatched[i], "parse-id")
                   /\ ValueIn("item", t, "i-id") = ValueIn("parse", p, "i-id")
                   /\ result[i] = <<ValueIn("item", t, "i-input")>>

\* select i-input from result has returned the same value three times
C21_Witness ==
    /\ pc = "done"
    /\ err = ""
    /\ db = DbTsdb
    /\ tokens = InputFromResult
    /\ Len(joins) = 3
    /\ result = << <<1>>, <<1>>, <<1>> >>

(***************************************************************************)
(* C22, C26, C29: a call of _join on a Selection, seen from its holder.    *)
(***************************************************************************)
OnlyInnerLeft == "only 'inner' and 'left' join methods are allowed"
NoSharedKeys == "no shared keys for joining"

JoinCalled == pc = "joins" /\ call.op = "join"

\* the requested key columns of the new relation whose name the selection has
OnKeys(before, name, columns) ==
    {n \in SeqToSet(columns) :
        /\ n \in SeqToSet(KeysOf(SchemaFields(db, name)))
        /\ Bare(n) \in DOMAIN before.field_index}

\* the requested columns that the join adds
NewColumns(before, name, columns) ==
    SelectSeq(columns, LAMBDA n : n \notin OnKeys(before, name, columns))

\* the rows of the new relation that agree with row l of the selection on
\* every shared key, in the order of the relation
MatchingRows(before, name, columns, l) ==
    SelectSeq([r \in 1..Len(db.rows[name]) |-> r],
              LAMBDA r : \A n \in OnKeys(before, name, columns) :
                            ValueIn(name, r, n) = before.data[l][before.field_index[Bare(n)]])

ExpectedJoin(before, name, columns, how) ==
    LET new == NewColumns(before, name, columns)
        Out(l) ==
            LET hit == MatchingRows(before, name, columns, l)
            IN IF hit # <<>>
               THEN [m \in 1..Len(hit) |->
                        before.data[l] \o [i \in 1..Len(new) |-> ValueIn(name, hit[m], new[i])]]
               ELSE IF how = "left"
               THEN << before.data[l] \o [i \in 1..Len(new) |-> None] >>
               ELSE <<>>
    IN Flatten([l \in 1..Len(before.data) |-> Out(l)])

\* C22: a join of a new relation onto a selection that has a relation
\* already.  With 'inner' the output has, for each selection row in order,
\* one row per matching row of the new relation in that relation's order
\* and none for a row without a match; with 'left' a row without a match
\* appears once, with None in every new column.
C22_InnerAndLeft ==
    (JoinCalled /\ err = "" /\ call.before.joined # {}) =>
        selection.data = ExpectedJoin(call.before, call.name, call.columns, call.how)

\* result has been left-joined onto parse: the first parse row has two
\* result rows, the second has none
C22_Witness ==
    /\ JoinCalled
    /\ err = ""
    /\ db = DbTsdb
    /\ call.how = "left"
    /\ call.name = "result"
    /\ call.columns = <<"parse-id", "mrs">>
    /\ call.before.data = << <<1, 10>>, <<2, 20>>, <<3, 30>> >>
    /\ selection.data = << <<1, 10, 5>>, <<1, 10, 6>>, <<2, 20, None>>, <<3, 30, 5>> >>

\* C26: a _join call fails when how is neither 'inner' nor 'left', when the
\* relation is in selection.joined, or when a join onto a selection that
\* has a relation finds no requested key column in it; it then raises the
\* TSQLError of that case and leaves fields, field index, data and joined
\* set as they were before the call.
C26_FailedJoinChangesNothing ==
    JoinCalled =>
        LET before == call.before
            bad_how == call.how \notin {"inner", "left"}
            twice == ~bad_how /\ call.name \in before.joined
            no_keys == /\ ~bad_how /\ ~twice /\ before.joined # {}
                       /\ OnKeys(before, call.name, call.columns) = {}
        IN /\ bad_how => err = OnlyInnerLeft
           /\ twice => err = JoinedTwice
           /\ no_keys => err = NoSharedKeys
           /\ err # "" => /\ bad_how \/ twice \/ no_keys
                          /\ selection.fields = before.fields
                          /\ selection.field_index = before.field_index
                          /\ selection.data = before.data
                          /\ selection.joined = before.joined

\* a join onto a selection with rows has failed for want of a shared key
C26_Witness ==
    /\ JoinCalled
    /\ err = NoSharedKeys
    /\ call.how = "left"
    /\ selection.data # <<>>
    /\ selection = call.before

\* C29: after any sequence of _join calls on a new Selection every row is
\* as long as the field list, the field index holds positions of the field
\* list, joined holds the relations joined so far, a bare name is mapped
\* to the first column merged under it, and the qualified name of a key
\* the last relation was joined on is mapped to the column already there.
C29_SelectionShape ==
    pc = "joins" =>
        /\ \A r \in 1..Len(selection.data) : Len(selection.data[r]) = Len(selection.fields)
        /\ \A k \in DOMAIN selection.field_index :
              selection.field_index[k] \in 1..Len(selection.fields)
        /\ \A i \in 1..Len(selection.fields) :
              /\ Bare(selection.fields[i].name) \in DOMAIN selection.field_index
              /\ selection.field_index[Bare(selection.fields[i].name)] <= i
              /\ selection.fields[selection.field_index[Bare(selection.fields[i].name)]].name
                    = selection.fields[i].name
        /\ (call.op = "join" /\ err = "") =>
              /\ selection.joined = call.before.joined \cup {call.name}
              /\ \A k \in DOMAIN call.before.field_index :
                    selection.field_index[k] = call.before.field_index[k]
              /\ call.before.joined # {} =>
                    \A n \in OnKeys(call.before, call.name, call.columns) :
                       selection.field_index[Q(call.name, n)] = call.before.field_index[Bare(n)]
        /\ call.op = "" => selection.joined = {}

\* two relations are joined, the second one by a left join, and a name is
\* the name of two columns
C29_Witness ==
    /\ JoinCalled
    /\ err = ""
    /\ call.how = "left"
    /\ Cardinality(selection.joined) = 2
    /\ \E i \in 1..Len(selection.fields) :
          /\ selection.field_index[Bare(selection.fields[i].name)] < i
          /\ selection.field_index[Q(call.name, selection.fields[i].name)] = i

(***************************************************************************)
(* C23: the relation a column name resolves to.                            *)
(***************************************************************************)
\* the positions in the schema of the relations that have the column
Having(col) == {i \in 1..Len(db.schema) : col \in SeqToSet(FieldNames(db.schema[i].fields))}

\* those of them that the from clause names
HavingNamed(col) == {i \in Having(col) : Contains(query.relations, db.schema[i].name)}

Earliest(S) == CHOOSE i \in S : \A j \in S : i <= j

ExpectedName(ref) ==
    IF ref.rel # "" THEN ref
    ELSE IF HavingNamed(ref.col) # {}
    THEN Q(db.schema[Earliest(HavingNamed(ref.col))].name, ref.col)
    ELSE Q(db.schema[Earliest(Having(ref.col))].name, ref.col)

\* _make_execution_plan has resolved the names of the query
NamesResolved == pc \notin {"parse", "plan", "joins"}

\* C23: every name of the projection and of the condition resolves to one
\* relation: a qualified name is unchanged; a bare name gets the earliest
\* relation in schema order among those of the from clause that have the
\* column, and the earliest relation of the schema that has it when no
\* relation of the from clause does.
C23_ResolvedRelation ==
    NamesResolved =>
        /\ query.projection # Star =>
              /\ Len(projection) = Len(query.projection)
              /\ \A i \in 1..Len(projection) : projection[i] = ExpectedName(query.projection[i])
        /\ query.condition # NoCond =>
              /\ Len(CondRefs(condition)) = Len(CondRefs(query.condition))
              /\ \A i \in 1..Len(CondRefs(condition)) :
                    CondRefs(condition)[i] = ExpectedName(CondRefs(query.condition)[i])

\* a bare name of the projection has gone to a relation of the from clause
\* although an earlier relation of the schema has the column, and another
\* one to the earliest relation of the schema
C23_Witness ==
    /\ NamesResolved
    /\ query.projection # Star
    /\ \E i \in 1..Len(projection) :
          /\ query.projection[i].rel = ""
          /\ HavingNamed(query.projection[i].col) # {}
          /\ Earliest(HavingNamed(query.projection[i].col)) # Earliest(Having(query.projection[i].col))
          /\ projection[i].rel = db.schema[Earliest(HavingNamed(query.projection[i].col))].name
    /\ \E i \in 1..Len(projection) :
          /\ query.projection[i].rel = ""
          /\ query.relations # <<>>
          /\ HavingNamed(query.projection[i].col) = {}

(***************************************************************************)
(* C24: the holder's calls on the returned Selection.                      *)
(***************************************************************************)
\* the rows of sel with the columns the names stand for, in their order
ProjectedRows(sel, names) ==
    [r \in 1..Len(sel.data) |-> [i \in 1..Len(names) |-> sel.data[r][sel.field_index[names[i]]]]]

\* C24: iterating the Selection or calling select(*names) on it leaves its
\* fields, field index, data, projection and joined set as they were, and
\* the rows yielded are a function of the Selection alone: every iteration
\* yields the rows of data with the columns of the projection in the order
\* of the projection, and select(*names) those of the names (every column
\* for no names).
C24_IterationChangesNothing ==
    pc = "done" =>
        /\ call.op \in {"iter", "select"} =>
              /\ selection.fields = call.before.fields
              /\ selection.field_index = call.before.field_index
              /\ selection.data = call.before.data
              /\ selection.projection = call.before.projection
              /\ selection.joined = call.before.joined
        /\ (call.op \in {"", "iter"} /\ err = "") =>
              result = ProjectedRows(selection, selection.projection.names)
        /\ (call.op = "select" /\ err = "") =>
              result = IF call.names = <<>> THEN selection.data
                       ELSE ProjectedRows(selection, call.names)
        /\ err # "" => /\ err = "KeyError"
                       /\ call.op = "select"
                       /\ \E i \in 1..Len(call.names) :
                             call.names[i] \notin DOMAIN selection.field_index

\* the Selection has been iterated again after its first iteration; its
\* projection lists columns in another order than the fields have
C24_Witness ==
    /\ pc = "done"
    /\ call.op = "iter"
    /\ err = ""
    /\ result # <<>>
    /\ Len(selection.projection.names) = 3
    /\ selection.field_index[selection.projection.names[2]]
          > selection.field_index[selection.projection.names[3]]

(***************************************************************************)
(* C25: inspect_query on the same string at two moments.                   *)
(***************************************************************************)
\* the query string has a date keyword, now or :today
HasDateKeyword == \E i \in 1..Len(tokens) : tokens[i].type = "KWDATE"

\* both calls returned a query
BothValid(i, j) == inspected[i].returned.err = "" /\ inspected[j].returned.err = ""

NotText(a, conn, b) == <<TId("i-id"), TWhere, TNot>> \o a \o <<conn>> \o b

\* what the parser returns for the text `i-id where rest`
WhereAlone(rest) == _parse_select(<<TId("i-id"), TWhere>> \o rest)

\* the text is `i-id where not ...` with no other where
StartsWithNot ==
    /\ Len(tokens) >= 3
    /\ tokens[1] = TId("i-id") /\ tokens[2] = TWhere /\ tokens[3] = TNot
    /\ \A i \in 3..Len(tokens) : tokens[i] # TWhere

\* C27: not negates the whole disjunction that follows it, and/or chain
\* included: `where not A and B` parses to not(and[A, B]) and
\* `where not A or B` to not(or[A, B]); in general `where not REST` is
\* accepted when `where REST` is and parses to not of its condition
C27_NotNegatesDisjunction ==
    ParseEnded =>
        /\ \A a \in {CmpX, CmpY}, b \in {CmpX, CmpY}, conn \in {TAnd, TOr} :
              tokens = NotText(a, conn, b) =>
                 /\ ParseAccepted
                 /\ query.condition =
                       Not(Bool(IF conn = TAnd THEN "and" ELSE "or",
                                <<WhereAlone(a).query.condition,
                                  WhereAlone(b).query.condition>>))
        /\ StartsWithNot =>
              LET Then(r) ==
                      /\ ParseAccepted <=> r.err = ""
                      /\ ParseAccepted => query.condition = Not(r.query.condition)
              IN Then(WhereAlone(SubSeq(tokens, 4, Len(tokens))))

\* `i-id where not i-id = 10 or item.i-input ~ "dog"` has been parsed
C27_Witness ==
    /\ ParseAccepted
    /\ tokens = NotText(CmpX, TOr, CmpY)
    /\ query.condition = Not(Bool("or", <<Cmp("==", Bare("i-id"), 10),
                                          Cmp("~", Q("item", "i-input"), "dog")>>))

\* `i-id where not i-id = 10 and item.i-input ~ "dog"` has been parsed
C27_WitnessAnd ==
    /\ ParseAccepted
    /\ tokens = NotText(CmpX, TAnd, CmpY)
    /\ query.condition = Not(Bool("and", <<Cmp("==", Bare("i-id"), 10),
                                           Cmp("~", Q("item", "i-input"), "dog")>>))

(***************************************************************************)
(* C28: the relations of the join list.                                    *)
(***************************************************************************)
\* C28: the join list _plan_joins returns has each relation of the from
\* clause, of the resolved projection and condition fields and of the pivot
\* relations exactly once and no other relation, and running the joins
\* never raises 'cannot join the same relation twice'
C28_JoinsAreTheRelations ==
    /\ PlanReturned =>
          /\ JoinRels = Named \cup pivots
          /\ \A i, j \in 1..Len(joins) : joins[i].rel = joins[j].rel => i = j
    /\ err # JoinedTwice

\* what does hold: no relation is listed twice, every listed relation is
\* one of those, and the relations left out are relations of the from
\* clause without a key field and without a referenced column
JoinsLackOnlyKeylessUnreferenced ==
    /\ PlanReturned =>
          /\ JoinRels \subseteq Named \cup pivots
          /\ \A i, j \in 1..Len(joins) : joins[i].rel = joins[j].rel => i = j
          /\ \A rel \in (Named \cup pivots) \ JoinRels :
                /\ rel \in SeqToSet(query.relations)
                /\ KeySet(rel) = {}
                /\ \A i \in 1..Len(projection \o cond_fields) :
                      (projection \o cond_fields)[i].rel # rel
    /\ err # JoinedTwice

\* the plan of `x from R0` is returned without R0
JoinsLackWitness ==
    /\ PlanReturned
    /\ db = DbKeyless
    /\ query.relations = <<"R0">>
    /\ JoinRels = {"R1"}

(***************************************************************************)
(* C30: the names of the query in the field index after the joins.         *)
(***************************************************************************)
\* the resolved names of the projection and of the condition
ResolvedNames == SeqToSet(projection \o cond_fields)

\* every column reference of the query exists in the schema
ReferencesExist ==
    \A q \in ResolvedNames :
        q.rel \in RelNames(db) /\ q.col \in SeqToSet(FieldNames(SchemaFields(db, q.rel)))

\* every planned join has been applied
JoinsApplied == (pc = "join" /\ err = "" /\ jnext > Len(joins)) \/ pc \in {"selected", "done"}

\* C30: when every column reference of the query exists in the schema,
\* after all planned joins every qualified name of the resolved projection
\* and condition is a key of the field index of the selection, wildcard
\* projections included, and neither the filter nor the projection fails
\* on a column lookup
C30_NamesIndexed ==
    (PlanReturned /\ ReferencesExist) =>
        /\ JoinsApplied =>
              \A q \in ResolvedNames :
                 /\ q \in DOMAIN selection.field_index
                 /\ selection.fields[selection.field_index[q]].name = q.col
        /\ err # "KeyError"

\* `* from result item` has been joined item first: the key of result that
\* the wildcard names was joined on and is in the index by its qualified
\* name
C30_Witness ==
    /\ JoinsApplied
    /\ ReferencesExist
    /\ query.projection = <<Bare("*")>>
    /\ Len(joins) >= 2
    /\ \E q \in ResolvedNames :
          /\ q.rel # joins[1].rel
          /\ Bare(q.col) \in DOMAIN selection.field_index
          /\ selection.field_index[q] <= Len(joins[1].cols)
====
